---- MODULE Spec2Model ----
(***************************************************************************)
(* Model of the ray propagation solver of the MiniLaser sandbox            *)
(* (src/src/lib.rs): Laser::solve_collisions, its closest-hit search       *)
(* Laser::find_closest_segment_new, the intersection primitive             *)
(* Ray::collides_with and reflect.                                         *)
(*                                                                         *)
(* Numbers.  The program computes in f32.  The model computes the same     *)
(* expressions exactly:                                                    *)
(*   - a position is a pair of integers [x, y];                            *)
(*   - a direction or normal is [x, y, s] and stands for (x, y)/sqrt(s),   *)
(*     so that the unit normal of a 45 degree segment, (1, 1)/sqrt(2), is  *)
(*     [1, 1, 2]; a vector of positions has s = 1;                         *)
(*   - a colour component is a natural number n over ColorBase^e, where e  *)
(*     is the colour's exponent; n is kept as a sequence of limbs in base  *)
(*     10000 (least significant first), because the products of a long     *)
(*     chain of splits do not fit a machine integer.                       *)
(* The scenes of the model use axis-parallel and 45 degree segments and    *)
(* axis-parallel initial rays; on these every hit point is an integer      *)
(* position, every reflected direction is again axis-parallel and every    *)
(* split weight is a multiple of 1/ColorBase (GridExact states this and    *)
(* TLC checks it).                                                         *)
(*                                                                         *)
(* Specifications.                                                         *)
(*   Spec       a call of solve_collisions on a scene, unit rays;          *)
(*   ProbeSpec  Ray::collides_with and the split on one ray and one        *)
(*              segment, over a grid of rays and segments;                 *)
(*   LaxSpec    a call of solve_collisions for a ray that is not of        *)
(*              length 1, in a debug and in a release build;               *)
(*   NetSpec    the operations of NodeNetwork on its nodes and edges;      *)
(*   FloatSpec  Laser::look_at and Ray::collides_with in f32 arithmetic,   *)
(*              rounding included;                                         *)
(*   FrameSpec  the frames of main: get_all_connections, then a call of    *)
(*              solve_collisions on the segments it returned;              *)
(*   FresnelSpec  FresnelReflectAmount in f32 arithmetic;                  *)
(*   CircleSpec   node_circle (src/src/main.rs) on a network;              *)
(*   EditorSpec   NodeNetwork::update with the mouse: handle_mouse,        *)
(*                handle_selection, the dragging of nodes, clean;          *)
(*   ConnSpec     calls of NodeNetwork::add_connection;                    *)
(*   LabyrinthSpec  Labyrinth::generate_depth_first                        *)
(*                (src/src/labyrinth.rs), a pass of its loop a step.       *)
(***************************************************************************)
EXTENDS Integers, Sequences, FiniteSets, TLC

\* Option<T>: None is the empty sequence and Some(x) the sequence <<x>>
None == <<>>

Some(x) == <<x>>

Unwrap(opt) == opt[1]

\* ------------------------------------------------------------------------
\* Bounds of the model
\* ------------------------------------------------------------------------
MaxRaysBound == 4      \* MAX_RAYS ranges over 1..MaxRaysBound
MaxSegs == 2           \* a scene is a list of at most MaxSegs segments

\* ------------------------------------------------------------------------
\* Program constants
\* ------------------------------------------------------------------------
MAX_DISTANCE == 20000  \* Laser::MAX_DISTANCE

\* ------------------------------------------------------------------------
\* Exact naturals as limb sequences (base 10000, least significant first,
\* no leading zero limb; zero is the empty sequence)
\* ------------------------------------------------------------------------
RECURSIVE BigMulCarry(_, _, _)
BigMulCarry(n, m, carry) ==
    IF n = <<>>
    THEN IF carry = 0 THEN <<>> ELSE <<carry % 10000>> \o BigMulCarry(<<>>, m, carry \div 10000)
    ELSE LET p == Head(n) * m + carry
         IN <<p % 10000>> \o BigMulCarry(Tail(n), m, p \div 10000)

\* n * m for a limb sequence n and a small natural m
BigMul(n, m) == IF m = 0 THEN <<>> ELSE BigMulCarry(n, m, 0)

RECURSIVE BigAddCarry(_, _, _)
BigAddCarry(a, b, carry) ==
    IF a = <<>> /\ b = <<>>
    THEN IF carry = 0 THEN <<>> ELSE <<carry>>
    ELSE LET x == IF a = <<>> THEN 0 ELSE Head(a)
             y == IF b = <<>> THEN 0 ELSE Head(b)
             s == x + y + carry
         IN <<s % 10000>> \o BigAddCarry(IF a = <<>> THEN <<>> ELSE Tail(a),
                                         IF b = <<>> THEN <<>> ELSE Tail(b),
                                         s \div 10000)

BigAdd(a, b) == BigAddCarry(a, b, 0)

RECURSIVE BigLess(_, _)
\* a < b
BigLess(a, b) ==
    IF Len(a) # Len(b) THEN Len(a) < Len(b)
    ELSE IF a = <<>> THEN FALSE
    ELSE LET k == Len(a)
         IN IF a[k] # b[k] THEN a[k] < b[k]
            ELSE BigLess(SubSeq(a, 1, k - 1), SubSeq(b, 1, k - 1))

BigLeq(a, b) == a = b \/ BigLess(a, b)

RECURSIVE BigPow(_, _)
BigPow(m, e) == IF e = 0 THEN <<1>> ELSE BigMul(BigPow(m, e - 1), m)

\* ------------------------------------------------------------------------
\* Vec2 (glam) on the model's numbers
\* ------------------------------------------------------------------------
Pt(x, y) == [x |-> x, y |-> y]

Vec(x, y, s) == [x |-> x, y |-> y, s |-> s]

Abs(n) == IF n < 0 THEN -n ELSE n

RECURSIVE GCD(_, _)
GCD(a, b) == IF b = 0 THEN a ELSE GCD(b, a % b)

\* p - q for two positions: a vector of positions (s = 1)
Sub(p, q) == Vec(p.x - q.x, p.y - q.y, 1)

\* Vec2::normalize_or_zero: (x, y)/sqrt(s) scaled to length 1; zero stays zero
normalize_or_zero(v) ==
    IF v.x = 0 /\ v.y = 0 THEN Vec(0, 0, 1)
    ELSE LET g == GCD(Abs(v.x), Abs(v.y))
         IN Vec(v.x \div g, v.y \div g, (v.x * v.x + v.y * v.y) \div (g * g))

\* Vec2::normalize, used by the program on non-zero vectors only
normalize(v) == normalize_or_zero(v)

\* Vec2::is_normalized
is_normalized(v) == v.x * v.x + v.y * v.y = v.s

\* Vec2::perp: rotation by 90 degrees
perp(v) == Vec(-v.y, v.x, v.s)

\* Numerator of Vec2::dot; the value is DotN(a, b)/sqrt(a.s * b.s)
DotN(a, b) == a.x * b.x + a.y * b.y

\* Numerator of Vec2::perp_dot; the value is PerpDotN(a, b)/sqrt(a.s * b.s)
PerpDotN(a, b) == a.x * b.y - a.y * b.x

\* Vec2::length_squared of a vector of positions
length_squared(v) == v.x * v.x + v.y * v.y

\* Vec2::distance_squared of two positions
distance_squared(p, q) == length_squared(Sub(p, q))

\* origin + direction * k for a direction whose components are rational
\* (s = 1), as in `ray.origin + ray.direction * Self::MAX_DISTANCE`
Along(origin, direction, k) == Pt(origin.x + direction.x * k, origin.y + direction.y * k)

\* ------------------------------------------------------------------------
\* Ray::collides_with (lib.rs 474-503)
\* ------------------------------------------------------------------------
\* t1 = t1n * sqrt(s) / denominator and t2 = t2n / denominator, where s is
\* ray_dir.s and denominator is the numerator of line_segment . ray_dir_perp;
\* the collision point origin + ray_dir * t1 is origin + (x, y) * t1n / denominator.
\* Mutant of collides_with: the test t1 >= 0.0 is missing
collides_with_Behind(ray, other) ==
    LET start == other[1]
        end == other[2]
        ray_dir == normalize_or_zero(ray.direction)
        ray_dir_perp == perp(ray_dir)
        start_to_origin == Sub(ray.origin, start)
        line_segment == Sub(end, start)
        denominator == DotN(line_segment, ray_dir_perp)
        t1n == PerpDotN(line_segment, start_to_origin)
        t2n == DotN(start_to_origin, ray_dir_perp)
    IN IF denominator = 0
       THEN None
       ELSE IF t2n * denominator >= 0
               /\ t2n * denominator <= denominator * denominator
            THEN LET collision == Pt(ray.origin.x + (ray_dir.x * t1n) \div denominator,
                                     ray.origin.y + (ray_dir.y * t1n) \div denominator)
                 IN Some([position |-> collision,
                          normal |-> IF length_squared(Sub(collision, start)) = 0
                                     THEN perp(normalize(Sub(collision, end)))
                                     ELSE perp(normalize(Sub(collision, start)))])
            ELSE None

\* Mutant of collides_with: a segment of length zero is taken for a point
\* obstacle, hit when the point lies on the ray
collides_with_PointHit(ray, other) ==
    LET start == other[1]
        end == other[2]
        ray_dir == normalize_or_zero(ray.direction)
        ray_dir_perp == perp(ray_dir)
        start_to_origin == Sub(ray.origin, start)
        line_segment == Sub(end, start)
        denominator == DotN(line_segment, ray_dir_perp)
    IN IF denominator = 0
       THEN IF /\ start = end
               /\ DotN(start_to_origin, ray_dir_perp) = 0
               /\ DotN(start_to_origin, ray_dir) <= 0
            THEN Some([position |-> start, normal |-> ray_dir_perp])
            ELSE None
       ELSE LET t1n == PerpDotN(line_segment, start_to_origin)
                t2n == DotN(start_to_origin, ray_dir_perp)
            IN IF t1n * denominator >= 0
                  /\ t2n * denominator >= 0
                  /\ t2n * denominator <= denominator * denominator
               THEN LET collision == Pt(ray.origin.x + (ray_dir.x * t1n) \div denominator,
                                        ray.origin.y + (ray_dir.y * t1n) \div denominator)
                        normal_to_collision ==
                            IF length_squared(Sub(collision, start)) = 0
                            THEN perp(normalize(Sub(collision, end)))
                            ELSE perp(normalize(Sub(collision, start)))
                    IN Some([position |-> collision, normal |-> normal_to_collision])
               ELSE None

collides_with(ray, other) ==
    LET start == other[1]
        end == other[2]
        ray_dir == normalize_or_zero(ray.direction)
        ray_dir_perp == perp(ray_dir)
        start_to_origin == Sub(ray.origin, start)
        line_segment == Sub(end, start)
        denominator == DotN(line_segment, ray_dir_perp)
    IN IF denominator = 0          \* |denominator| < f32::EPSILON
       THEN None
       ELSE LET t1n == PerpDotN(line_segment, start_to_origin)
                t2n == DotN(start_to_origin, ray_dir_perp)
            IN IF t1n * denominator >= 0                \* t1 >= 0.0
                  /\ t2n * denominator >= 0             \* t2 >= 0.0
                  /\ t2n * denominator <= denominator * denominator   \* t2 <= 1.0
               THEN LET collision == Pt(ray.origin.x + (ray_dir.x * t1n) \div denominator,
                                        ray.origin.y + (ray_dir.y * t1n) \div denominator)
                        normal_to_collision ==
                            IF length_squared(Sub(collision, start)) = 0   \* <= f32::EPSILON
                            THEN perp(normalize(Sub(collision, end)))
                            ELSE perp(normalize(Sub(collision, start)))
                    IN Some([position |-> collision, normal |-> normal_to_collision])
               ELSE None

\* The collision point of collides_with is an integer position
HitOnGrid(ray, other) ==
    LET ray_dir == normalize_or_zero(ray.direction)
        denominator == DotN(Sub(other[2], other[1]), perp(ray_dir))
        t1n == PerpDotN(Sub(other[2], other[1]), Sub(ray.origin, other[1]))
    IN denominator # 0 =>
          /\ (ray_dir.x * t1n) % Abs(denominator) = 0
          /\ (ray_dir.y * t1n) % Abs(denominator) = 0

\* ------------------------------------------------------------------------
\* reflect (lib.rs 814-818): direction - 2 * normal * (direction . normal),
\* normalized.  With direction = (dx, dy)/sqrt(sd) and a unit normal
\* (nx, ny)/sqrt(sn) this is (sn * (dx, dy) - 2 k (nx, ny)) / (sn * sqrt(sd)),
\* k the numerator of the dot product.
\* ------------------------------------------------------------------------
\* Mutant of reflect: direction - normal * (direction . normal), the factor
\* 2 forgotten
reflect_NoDouble(direction, normal) ==
    LET k == DotN(direction, normal)
        res == Vec(normal.s * direction.x - k * normal.x,
                   normal.s * direction.y - k * normal.y,
                   normal.s * normal.s * direction.s)
    IN normalize(res)

reflect(direction, normal) ==
    LET k == DotN(direction, normal)
        res == Vec(normal.s * direction.x - 2 * k * normal.x,
                   normal.s * direction.y - 2 * k * normal.y,
                   normal.s * normal.s * direction.s)
    IN normalize(res)

\* ------------------------------------------------------------------------
\* Color (macroquad): four components r, g, b, a; component c stands for
\* c / ColorBase^e
\* ------------------------------------------------------------------------
ColorBase == 800       \* common denominator of the split weights 0.97 * dot^6

Color(r, g, b, a, e) == [r |-> r, g |-> g, b |-> b, a |-> a, e |-> e]

\* Color::new(1.0, 0., 0., 1.), the colour Laser::new gives its ray
LaserColor == Color(<<1>>, <<>>, <<>>, <<1>>, 0)

\* color.to_vec() * w for a weight w / ColorBase
ColorTimes(color, w) ==
    Color(BigMul(color.r, w), BigMul(color.g, w), BigMul(color.b, w),
          BigMul(color.a, w), color.e + 1)

\* ray.color.a <= 0.1f32
EnergySpent(color) == BigLeq(BigMul(color.a, 10), BigPow(ColorBase, color.e))

\* fresnel = ray.direction.dot(collision.normal).powi(6) * 0.97, in units of
\* 1/ColorBase: dot^2 = k^2 / (direction.s * normal.s)
Fresnel(direction, normal) ==
    LET k == DotN(direction, normal)
        k2 == k * k
        s == direction.s * normal.s
    IN (97 * (ColorBase \div 100) * k2 * k2 * k2) \div (s * s * s)

\* The split weight is a whole number of units 1/ColorBase
FresnelExact(direction, normal) ==
    LET k == DotN(direction, normal)
        k2 == k * k
        s == direction.s * normal.s
    IN s > 0 /\ (97 * (ColorBase \div 100) * k2 * k2 * k2) % (s * s * s) = 0

\* is_critical = collision.normal.dot(ray.direction).abs().acos() == 0.8509:
\* the angle between normal and direction is 0.8509 to the four decimals of
\* the literal, that is within [0.85085, 0.85095]; the square of its cosine
\* then lies within [0.43464, 0.43473]; dot^2 = k^2 / (direction.s * normal.s)
IsCritical(normal, direction) ==
    LET k == DotN(normal, direction)
        s == normal.s * direction.s
    IN /\ 43464 * s <= 100000 * k * k
       /\ 100000 * k * k <= 43473 * s

\* ------------------------------------------------------------------------
\* Ray and Segment
\* ------------------------------------------------------------------------
Ray(origin, direction, color) == [origin |-> origin, direction |-> direction, color |-> color]

\* Segment(Vec2, Vec2, EdgeState) is the tuple <<start, end, state>>
EdgeState == {"Reflective", "Absorptive", "Transparent"}

\* ------------------------------------------------------------------------
\* Laser::find_closest_segment_new (lib.rs 397-423)
\* ------------------------------------------------------------------------
\* Mutant of ClosestFrom: every hit replaces the candidate, whatever its
\* distance
RECURSIVE ClosestFrom_AnyHit(_, _, _, _, _, _)
ClosestFrom_AnyHit(ray, segments, ray_origin_segment, i, collision, new_collision_segment) ==
    IF i > Len(segments)
    THEN IF new_collision_segment # None
         THEN Some([collision |-> collision, segment |-> Unwrap(new_collision_segment)])
         ELSE None
    ELSE LET segment == segments[i]
             hit == collides_with(ray, <<segment[1], segment[2]>>)
         IN IF ray_origin_segment # None /\ segment = Unwrap(ray_origin_segment)
            THEN ClosestFrom_AnyHit(ray, segments, ray_origin_segment, i + 1,
                                    collision, new_collision_segment)
            ELSE IF hit # None
                 THEN ClosestFrom_AnyHit(ray, segments, ray_origin_segment, i + 1,
                                         Unwrap(hit), Some(segment))
                 ELSE ClosestFrom_AnyHit(ray, segments, ray_origin_segment, i + 1,
                                         collision, new_collision_segment)

\* The for loop from segment i on; collision and new_collision_segment are
\* the loop's two mutable locals.
RECURSIVE ClosestFrom(_, _, _, _, _, _)
ClosestFrom(ray, segments, ray_origin_segment, i, collision, new_collision_segment) ==
    IF i > Len(segments)
    THEN IF new_collision_segment # None
         THEN Some([collision |-> collision, segment |-> Unwrap(new_collision_segment)])
         ELSE None
    ELSE LET segment == segments[i]
             hit == collides_with(ray, <<segment[1], segment[2]>>)
         IN IF ray_origin_segment # None /\ segment = Unwrap(ray_origin_segment)
            THEN ClosestFrom(ray, segments, ray_origin_segment, i + 1,
                             collision, new_collision_segment)
            ELSE IF hit # None
                    /\ distance_squared(ray.origin, Unwrap(hit).position)
                         < distance_squared(ray.origin, collision.position)
                 THEN ClosestFrom(ray, segments, ray_origin_segment, i + 1,
                                  Unwrap(hit), Some(segment))
                 ELSE ClosestFrom(ray, segments, ray_origin_segment, i + 1,
                                  collision, new_collision_segment)

\* Mutant of find_closest_segment_new: the segment the ray left from is
\* searched like any other
find_closest_KeepsOrigin(ray, segments, ray_origin_segment) ==
    ClosestFrom(ray, segments, None, 1,
                [position |-> Along(ray.origin, ray.direction, MAX_DISTANCE),
                 normal |-> ray.direction],
                None)

find_closest_segment_new(ray, segments, ray_origin_segment) ==
    ClosestFrom(ray, segments, ray_origin_segment, 1,
                [position |-> Along(ray.origin, ray.direction, MAX_DISTANCE),
                 normal |-> ray.direction],
                None)

\* ------------------------------------------------------------------------
\* The arithmetic of the program.  Vec2 holds two f32: a sign, 24
\* significant bits and a binary exponent, and every operation rounds its
\* exact result to the nearest such number, ties to the even one.  An f32 is [s, m, e], the number s * m * 2^e, with m = 0
\* or 2^23 <= m < 2^24.  (Exponents stay far inside the range of f32 on
\* the inputs drawn below: no overflow and no subnormal number arises.)
\* ------------------------------------------------------------------------
F32(s, m, e) == [s |-> s, m |-> m, e |-> e]

f32_zero == F32(1, 0, 0)

\* The number of bits of n
RECURSIVE Bits(_)
Bits(n) == IF n = 0 THEN 0 ELSE 1 + Bits(n \div 2)

\* Round s * n * 2^e to f32, ties to even.  The lowest bit of n may stand
\* for digits below it that were cut off (a sticky bit); callers keep at
\* least two bits below the 24 kept whenever that is so.
f32_round(s, n, e) ==
    LET k == Bits(n) - 24
        q == n \div 2^k
        rem == n % 2^k
        up == \/ 2 * rem > 2^k
              \/ 2 * rem = 2^k /\ q % 2 = 1
    IN IF n = 0 THEN f32_zero
       ELSE IF k <= 0 THEN F32(s, n * 2^(0 - k), e + k)
       ELSE IF ~up THEN F32(s, q, e + k)
       ELSE IF q + 1 = 2^24 THEN F32(s, 2^23, e + k + 1)
       ELSE F32(s, q + 1, e + k)

\* `n as f32` for an integer of at most 24 bits
f32_from(n) == f32_round(IF n < 0 THEN -1 ELSE 1, Abs(n), 0)

\* f32::EPSILON, 2^-23
f32_EPSILON == F32(1, 2^23, -46)

f32_neg(a) == IF a.m = 0 THEN a ELSE F32(0 - a.s, a.m, a.e)

f32_abs(a) == F32(1, a.m, a.e)

\* |a| < |b|
f32_smaller(a, b) ==
    IF b.m = 0 THEN FALSE
    ELSE IF a.m = 0 THEN TRUE
    ELSE a.e < b.e \/ (a.e = b.e /\ a.m < b.m)

\* a < b
f32_lt(a, b) ==
    IF a.m = 0 /\ b.m = 0 THEN FALSE
    ELSE IF a.m = 0 THEN b.s = 1
    ELSE IF b.m = 0 THEN a.s = -1
    ELSE IF a.s # b.s THEN a.s = -1
    ELSE IF a.s = 1 THEN f32_smaller(a, b)
    ELSE f32_smaller(b, a)

\* a >= b
f32_ge(a, b) == ~f32_lt(a, b)

\* a <= b
f32_le(a, b) == ~f32_lt(b, a)

\* a * b: the 48-bit product of the two mantissas is hi * 2^24 + lo
f32_mul(a, b) ==
    LET ah == a.m \div 4096
        al == a.m % 4096
        bh == b.m \div 4096
        bl == b.m % 4096
        mid == ah * bl + al * bh
        low == (mid % 4096) * 4096 + al * bl
        hi == ah * bh + (mid \div 4096) + (low \div 2^24)
        lo == low % 2^24
        sticky == IF lo % 2^21 = 0 THEN 0 ELSE 1
    IN IF a.m = 0 \/ b.m = 0 THEN f32_zero
       ELSE f32_round(a.s * b.s, (hi * 8 + lo \div 2^21) * 2 + sticky,
                      a.e + b.e + 20)

\* a + b, for |a| >= |b|: b is shifted under a with three more bits kept
\* and a sticky bit
f32_add_ordered(a, b) ==
    LET shift == a.e - b.e
        big == a.m * 8
        cut == IF shift >= 27 THEN 0 ELSE (b.m * 8) \div 2^shift
        lost == IF shift >= 27 THEN TRUE ELSE (b.m * 8) % 2^shift # 0
        small == IF lost THEN (cut \div 2) * 2 + 1 ELSE cut
        sum == IF a.s = b.s THEN big + small ELSE big - small
    IN IF b.m = 0 THEN a
       ELSE f32_round(a.s, sum, a.e - 3)

f32_add(a, b) ==
    IF f32_smaller(a, b) THEN f32_add_ordered(b, a) ELSE f32_add_ordered(a, b)

f32_sub(a, b) == f32_add(a, f32_neg(b))

\* Long division: `steps` more binary digits of the quotient q, with the
\* remainder rem, for the divisor d
RECURSIVE DivBits(_, _, _, _)
DivBits(q, rem, d, steps) ==
    IF steps = 0 THEN [q |-> q, rem |-> rem]
    ELSE IF 2 * rem >= d THEN DivBits(2 * q + 1, 2 * rem - d, d, steps - 1)
    ELSE DivBits(2 * q, 2 * rem, d, steps - 1)

\* a / b for b # 0
f32_div(a, b) ==
    LET r == DivBits(a.m \div b.m, a.m % b.m, b.m, 26)
    IN IF a.m = 0 THEN f32_zero
       ELSE f32_round(a.s * b.s, r.q * 2 + (IF r.rem = 0 THEN 0 ELSE 1),
                      a.e - b.e - 27)

\* Digit-by-digit square root: bits holds the pairs of bits of the
\* radicand still to bring down, first pair first
RECURSIVE SqrtBits(_, _, _, _)
SqrtBits(root, rem, top, pairs) ==
    IF pairs = 0 THEN [root |-> root, rem |-> rem]
    ELSE LET pair == IF pairs > 13 THEN (top \div 4^(pairs - 14)) % 4 ELSE 0
             r == rem * 4 + pair
             trial == root * 4 + 1
         IN IF r >= trial THEN SqrtBits(2 * root + 1, r - trial, top, pairs - 1)
            ELSE SqrtBits(2 * root, r, top, pairs - 1)

\* a.sqrt() for a >= 0: the root of top * 2^26 where top * 2^even = a
f32_sqrt(a) ==
    LET odd == a.e % 2 # 0
        top == IF odd THEN a.m * 2 ELSE a.m
        even == IF odd THEN a.e - 1 ELSE a.e
        r == SqrtBits(0, 0, top, 26)
    IN IF a.m = 0 THEN f32_zero
       ELSE f32_round(1, r.root * 2 + (IF r.rem = 0 THEN 0 ELSE 1),
                      (even \div 2) - 14)

\* Vec2 of two f32
f32_vec(x, y) == [x |-> x, y |-> y]

f32_dot(a, b) == f32_add(f32_mul(a.x, b.x), f32_mul(a.y, b.y))

f32_perp_dot(a, b) == f32_sub(f32_mul(a.x, b.y), f32_mul(a.y, b.x))

f32_perp(a) == f32_vec(f32_neg(a.y), a.x)

f32_vsub(a, b) == f32_vec(f32_sub(a.x, b.x), f32_sub(a.y, b.y))

f32_vadd(a, b) == f32_vec(f32_add(a.x, b.x), f32_add(a.y, b.y))

f32_scale(a, k) == f32_vec(f32_mul(a.x, k), f32_mul(a.y, k))

\* glam's Vec2::normalize_or_zero: self * self.length().recip(), or ZERO
\* if the reciprocal is not finite and positive
f32_normalize_or_zero(v) ==
    LET len == f32_sqrt(f32_dot(v, v))
    IN IF len.m = 0 THEN f32_vec(f32_zero, f32_zero)
       ELSE f32_scale(v, f32_div(f32_from(1), len))

\* glam's Vec2::normalize: self * self.length().recip()
f32_normalize(v) == f32_scale(v, f32_div(f32_from(1), f32_sqrt(f32_dot(v, v))))

\* ------------------------------------------------------------------------
\* State
\* ------------------------------------------------------------------------
VARIABLES
    segments,     \* the snapshot handed to solve_collisions (&[Segment])
    ray,          \* self.ray of the Laser
    MAX_RAYS,     \* static mut MAX_RAYS, as `MAX_RAYS as usize`
    ray_stack,    \* VecDeque<(Ray, Option<Segment>)>, front first
    lines_stack,  \* Vec<(Vec2, Vec2, Color)>
    pc,           \* "call": before the call, "loop": at the head of the while
                  \* loop, "done": solve_collisions has returned lines_stack
    passes,       \* history: for each line of lines_stack, the pass that pushed it
    pushes,       \* history: number of rays ever put on ray_stack
    last,         \* history: the latest pass of the loop body (in ConnSpec: the
                  \* latest call of add_connection)
    nodes,        \* NodeNetwork.nodes: HashMap<usize, Node>
    connections,  \* NodeNetwork.connections: Vec<Edge>
    key,          \* NodeNetwork.key: the id the next node gets
    returned,     \* history: the ids add_node and add_node_with_radius returned
    resolved,     \* history: the end points the latest update gave each edge
    fault,        \* history: how the latest operation on the network ended:
                  \* "none", "logged" (error! was called) or "panic"
    OBJECT_REFLECTIVITY,  \* static mut OBJECT_REFLECTIVITY: f32
    reflectance,  \* the latest call of FresnelReflectAmount: its arguments
                  \* and what it returned
    dragged_node,   \* NodeNetwork.dragged_node: Option<usize>
    selected_node,  \* NodeNetwork.selected_node: Option<usize>
    circle,       \* history: the latest call of node_circle (main.rs 270)
    labyrinth     \* the Labyrinth built by generate_depth_first

vars == <<segments, ray, MAX_RAYS, ray_stack, lines_stack, pc, passes, pushes, last,
          nodes, connections, key, returned, resolved, fault,
          OBJECT_REFLECTIVITY, reflectance, dragged_node, selected_node,
          circle, labyrinth>>

\* The builders of scenes in main.rs: node_circle and the Labyrinth
builders == <<circle, labyrinth>>

\* No circle drawn and no labyrinth built
BuildersIdle ==
    /\ circle = None
    /\ labyrinth = None

\* The reflectivity slider and the calls of FresnelReflectAmount
tuning == <<OBJECT_REFLECTIVITY, reflectance>>

\* static mut OBJECT_REFLECTIVITY: f32 = 1.0 (lib.rs 34), and no call of
\* FresnelReflectAmount made
TuningDefault ==
    /\ OBJECT_REFLECTIVITY = f32_from(1)
    /\ reflectance = None

\* The NodeNetwork and its history
network == <<nodes, connections, key, returned, resolved, fault,
             dragged_node, selected_node>>

\* The node under the left button and the node picked with the right one
editor == <<dragged_node, selected_node>>

\* The Laser, the call of solve_collisions and its history
solve == <<ray, MAX_RAYS, ray_stack, lines_stack, pc, passes, pushes, last>>

\* NodeNetwork::new (lib.rs 507-520): no node, no edge, key 0
NodeNetwork_new ==
    /\ nodes = [id \in {} |-> None]
    /\ connections = <<>>
    /\ key = 0
    /\ returned = <<>>
    /\ resolved = <<>>
    /\ fault = "none"
    /\ dragged_node = None
    /\ selected_node = None

\* An element of ray_stack: the pair (ray, segment) of the program, with the
\* history tags gen (split generation) and id (position in the order of
\* enqueueing)
Entry(r, segment, gen, id) == [ray |-> r, segment |-> segment, gen |-> gen, id |-> id]

\* A pass of the loop body: kind is "discard" (continue at line 348), "miss"
\* (line 390) or "hit" (lines 353-388); entry is what pop_front returned,
\* found what the search returned, children the queue elements pushed
PassOf(kind, entry, found, children) ==
    [kind |-> kind, entry |-> entry, found |-> found, children |-> children]

NoPass == PassOf("none", None, None, <<>>)

\* ------------------------------------------------------------------------
\* Laser::solve_collisions (lib.rs 342-395)
\* ------------------------------------------------------------------------
\* The state of one call: the locals ray_stack and lines_stack, the history,
\* and done = the loop has been left by `break`.
Entered(r) ==
    [ray_stack |-> <<Entry(r, None, 0, 0)>>,
     lines_stack |-> <<>>,
     passes |-> <<>>,
     pushes |-> 1,
     last |-> NoPass,
     done |-> FALSE]

\* Mutant of pop_front: pop_back, the queue used as a stack
pop_back(stack) == [entry |-> stack[Len(stack)], rest |-> SubSeq(stack, 1, Len(stack) - 1)]

\* ray_stack.pop_front() on a non-empty queue: the element and what is left
pop_front(stack) == [entry |-> Head(stack), rest |-> Tail(stack)]

\* Mutant of Discards: the threshold is 0.2
Discards_Dim(r) == BigLeq(BigMul(r.color.a, 5), BigPow(ColorBase, r.color.e))

\* Mutant of Discards: the test is never true
Discards_Never(r) == FALSE

\* `if ray.color.a <= 0.1f32 { continue; }`: the test
Discards(r) == EnergySpent(r.color)

\* Mutant of Continue: `continue` on a ray that was only peeked at, so the
\* spent ray stays at the front of the queue
Continue_KeepsRay(st, popped) ==
    [st EXCEPT !.last = PassOf("discard", Some(popped.entry), None, <<>>)]

\* ... and the pass it ends: the ray is gone, nothing else changes
Continue(st, popped) ==
    [st EXCEPT !.ray_stack = popped.rest,
               !.last = PassOf("discard", Some(popped.entry), None, <<>>)]

\* Mutant of Children: a mirror returns half of the colour
Children_MirrorDims(r, collision, segment) ==
    IF segment[3] = "Reflective"
    THEN <<Ray(collision.position, reflect(r.direction, collision.normal),
               ColorTimes(r.color, ColorBase \div 2))>>
    ELSE IF segment[3] = "Transparent"
    THEN LET fresnel == Fresnel(r.direction, collision.normal)
         IN << Ray(collision.position, reflect(r.direction, collision.normal),
                   ColorTimes(r.color, ColorBase - fresnel)),
               Ray(collision.position, r.direction, ColorTimes(r.color, fresnel)) >>
    ELSE <<>>

\* Mutant of Children: an Absorptive segment reflects like a mirror
Children_AbsorptiveReflects(r, collision, segment) ==
    IF segment[3] = "Transparent"
    THEN LET fresnel == Fresnel(r.direction, collision.normal)
         IN << Ray(collision.position, reflect(r.direction, collision.normal),
                   ColorTimes(r.color, ColorBase - fresnel)),
               Ray(collision.position, r.direction, ColorTimes(r.color, fresnel)) >>
    ELSE <<Ray(collision.position, reflect(r.direction, collision.normal), r.color)>>

\* Mutant of Children: at a Transparent segment the reflected ray keeps the
\* whole colour of the incoming ray
Children_ReflectedKeepsColor(r, collision, segment) ==
    IF segment[3] = "Reflective"
    THEN <<Ray(collision.position, reflect(r.direction, collision.normal), r.color)>>
    ELSE IF segment[3] = "Transparent"
    THEN LET fresnel == Fresnel(r.direction, collision.normal)
         IN << Ray(collision.position, reflect(r.direction, collision.normal),
                   ColorTimes(r.color, ColorBase)),
               Ray(collision.position, r.direction, ColorTimes(r.color, fresnel)) >>
    ELSE <<>>

\* Mutant of Children: at the critical angle the transmitted ray is pushed
\* as well
Children_CriticalTransmits(r, collision, segment) ==
    IF segment[3] = "Reflective"
    THEN <<Ray(collision.position, reflect(r.direction, collision.normal), r.color)>>
    ELSE IF segment[3] = "Transparent"
    THEN IF IsCritical(collision.normal, r.direction)
         THEN << Ray(collision.position, reflect(r.direction, collision.normal), r.color),
                 Ray(collision.position, r.direction, r.color) >>
         ELSE LET fresnel == Fresnel(r.direction, collision.normal)
              IN << Ray(collision.position, reflect(r.direction, collision.normal),
                        ColorTimes(r.color, ColorBase - fresnel)),
                    Ray(collision.position, r.direction, ColorTimes(r.color, fresnel)) >>
    ELSE <<>>

\* Mutant of Children: the transmitted ray is given the colour times
\* (1 + fresnel)
Children_TransmittedAmplified(r, collision, segment) ==
    IF segment[3] = "Reflective"
    THEN <<Ray(collision.position, reflect(r.direction, collision.normal), r.color)>>
    ELSE IF segment[3] = "Transparent"
    THEN LET is_critical == IsCritical(collision.normal, r.direction)
             fresnel == Fresnel(r.direction, collision.normal)
             reflected == Ray(collision.position,
                              reflect(r.direction, collision.normal),
                              IF is_critical THEN r.color
                              ELSE ColorTimes(r.color, ColorBase - fresnel))
             transmitted == Ray(collision.position, r.direction,
                                ColorTimes(r.color, ColorBase + fresnel))
         IN IF is_critical THEN <<reflected>> ELSE <<reflected, transmitted>>
    ELSE <<>>

\* The rays pushed for a hit, each with Some(*segment) (lines 356-387)
Children(r, collision, segment) ==
    IF segment[3] = "Reflective"
    THEN <<Ray(collision.position, reflect(r.direction, collision.normal), r.color)>>
    ELSE IF segment[3] = "Transparent"
    THEN LET is_critical == IsCritical(collision.normal, r.direction)
             fresnel == Fresnel(r.direction, collision.normal)
             reflected == Ray(collision.position,
                              reflect(r.direction, collision.normal),
                              IF is_critical THEN r.color
                              ELSE ColorTimes(r.color, ColorBase - fresnel))
             transmitted == Ray(collision.position, r.direction,
                                ColorTimes(r.color, fresnel))
         IN IF is_critical THEN <<reflected>> ELSE <<reflected, transmitted>>
    ELSE <<>>

\* Mutant of Line: a ray that hits nothing is drawn one unit long
Line_NoReach(r, found) ==
    IF found # None
    THEN <<r.origin, Unwrap(found).collision.position, r.color>>
    ELSE <<r.origin, Along(r.origin, r.direction, 1), r.color>>

\* The line pushed on lines_stack (lines 388 and 390)
Line(r, found) ==
    IF found # None
    THEN <<r.origin, Unwrap(found).collision.position, r.color>>
    ELSE <<r.origin, Along(r.origin, r.direction, MAX_DISTANCE), r.color>>

\* Mutant of CapReached: the rays still queued count towards the cap
CapReached_CountsQueue(st, cap) == Len(st.lines_stack) + Len(st.ray_stack) >= cap

\* Mutant of CapReached: `>` for `>=`
CapReached_Late(st, cap) == Len(st.lines_stack) > cap

\* `if lines_stack.len() >= MAX_RAYS as usize { break; }`, st being the call
\* after the line has been pushed
CapReached(st, cap) == Len(st.lines_stack) >= cap

\* Mutant of Pushed: the children are queued without the segment they leave
\* from
Pushed_NoOrigin(children, segment, entry, pushed) ==
    IF children = <<>> THEN <<>>
    ELSE [i \in 1..Len(children) |->
             Entry(children[i], None, entry.gen + 1, pushed + i - 1)]

\* The queue elements push_back makes of the children of entry, in order
Pushed(children, segment, entry, pushed) ==
    IF children = <<>> THEN <<>>
    ELSE [i \in 1..Len(children) |->
             Entry(children[i], segment, entry.gen + 1, pushed + i - 1)]

\* One pass of the body of the while loop, the queue being non-empty
Body(st, segs, cap) ==
    LET popped == pop_front(st.ray_stack)
        entry == popped.entry
        r == entry.ray
    IN IF Discards(r)
       THEN Continue(st, popped)
       ELSE LET found == find_closest_segment_new(r, segs, entry.segment)
                children == IF found = None THEN <<>>
                            ELSE Pushed(Children(r, Unwrap(found).collision,
                                                 Unwrap(found).segment),
                                        Some(Unwrap(found).segment), entry, st.pushes)
                pass == PassOf(IF found = None THEN "miss" ELSE "hit",
                               Some(entry), found, children)
                after ==
                    [ray_stack |-> popped.rest \o children,
                     lines_stack |-> Append(st.lines_stack, Line(r, found)),
                     passes |-> Append(st.passes, pass),
                     pushes |-> st.pushes + Len(children),
                     last |-> pass,
                     done |-> FALSE]
            IN [after EXCEPT !.done = CapReached(after, cap)]

\* The whole call as a function of its inputs: the loop run to its end
RECURSIVE Run(_, _, _)
Run(st, segs, cap) ==
    IF st.done \/ st.ray_stack = <<>>
    THEN st.lines_stack
    ELSE Run(Body(st, segs, cap), segs, cap)

solve_collisions(r, segs, cap) == Run(Entered(r), segs, cap)

\* The call as the program sees it between two passes
Current ==
    [ray_stack |-> ray_stack, lines_stack |-> lines_stack, passes |-> passes,
     pushes |-> pushes, last |-> last, done |-> pc = "done"]

\* Mutant of Becomes: the ray popped from the queue is written to self.ray
Becomes_MovesLaser(st) ==
    /\ ray_stack' = st.ray_stack
    /\ lines_stack' = st.lines_stack
    /\ passes' = st.passes
    /\ pushes' = st.pushes
    /\ last' = st.last
    /\ pc' = IF st.done THEN "done" ELSE "loop"
    /\ ray' = IF st.last.entry = None THEN ray ELSE Unwrap(st.last.entry).ray
    /\ UNCHANGED <<segments, MAX_RAYS>>
    /\ UNCHANGED <<network, tuning, builders>>

Becomes(st) ==
    /\ ray_stack' = st.ray_stack
    /\ lines_stack' = st.lines_stack
    /\ passes' = st.passes
    /\ pushes' = st.pushes
    /\ last' = st.last
    /\ pc' = IF st.done THEN "done" ELSE "loop"
    /\ UNCHANGED <<segments, ray, MAX_RAYS>>
    /\ UNCHANGED <<network, tuning, builders>>

\* solve_collisions is called: lines 343-345
Enter ==
    /\ pc = "call"
    /\ Becomes(Entered(ray))

\* pop_front returns a ray and the body of the loop runs once (lines 346-393)
Pass ==
    /\ pc = "loop"
    /\ ray_stack # <<>>
    /\ Becomes(Body(Current, segments, MAX_RAYS))

\* pop_front returns None: the while loop ends and lines_stack is returned
Return ==
    /\ pc = "loop"
    /\ ray_stack = <<>>
    /\ pc' = "done"
    /\ UNCHANGED <<segments, ray, MAX_RAYS, ray_stack, lines_stack,
                   passes, pushes, last>>
    /\ UNCHANGED <<network, tuning, builders>>

\* ------------------------------------------------------------------------
\* Scenes and rays of the model
\* ------------------------------------------------------------------------
\* Endpoint pairs: two facing walls at x = 10 and x = -10, a 45 degree
\* segment through (5, 50) and a horizontal segment at y = 60
Geometries ==
    { <<Pt(10, 0), Pt(10, 100)>>,
      <<Pt(-10, 0), Pt(-10, 100)>>,
      <<Pt(0, 45), Pt(10, 55)>>,
      <<Pt(0, 60), Pt(10, 60)>> }

\* A wall at x = MAX_DISTANCE + 10: MAX_DISTANCE or more away from every ray
\* of the model that heads for it
FarWall(state) == <<Pt(MAX_DISTANCE + 10, 0), Pt(MAX_DISTANCE + 10, 100), state>>

SegmentPool ==
    { <<g[1], g[2], state>> : g \in Geometries, state \in EdgeState }
    \cup { FarWall("Reflective") }

RECURSIVE SeqsUpTo(_, _)
SeqsUpTo(S, n) ==
    IF n = 0 THEN { <<>> }
    ELSE LET shorter == SeqsUpTo(S, n - 1)
         IN shorter \cup { Append(q, x) : q \in shorter, x \in S }

Scenes == SeqsUpTo(SegmentPool, MaxSegs)

\* Unit directions along the axes (Vec2::from_angle at 0, 90, 180, 270 degrees)
AxisDirections == { Vec(1, 0, 1), Vec(-1, 0, 1), Vec(0, 1, 1), Vec(0, -1, 1) }

RayOrigins == { Pt(0, 50), Pt(5, 20) }

LaserRays == { Ray(o, d, LaserColor) : o \in RayOrigins, d \in AxisDirections }

Init ==
    /\ segments \in Scenes
    /\ ray \in LaserRays
    /\ MAX_RAYS \in 1..MaxRaysBound
    /\ ray_stack = <<>>
    /\ lines_stack = <<>>
    /\ pc = "call"
    /\ passes = <<>>
    /\ pushes = 0
    /\ last = NoPass
    /\ NodeNetwork_new
    /\ TuningDefault
    /\ BuildersIdle

Next ==
    \/ Enter
    \/ Pass
    \/ Return

Spec == Init /\ [][Next]_vars

\* ------------------------------------------------------------------------
\* Validity of the exact arithmetic on the scenes of the model
\* ------------------------------------------------------------------------
GridExact ==
    \A i \in 1..Len(ray_stack) :
        LET r == ray_stack[i].ray
        IN /\ r.direction.s = 1
           /\ is_normalized(r.direction)
           /\ \A j \in 1..Len(segments) :
                 /\ HitOnGrid(r, <<segments[j][1], segments[j][2]>>)
                 /\ LET hit == collides_with(r, <<segments[j][1], segments[j][2]>>)
                    IN hit # None => FresnelExact(r.direction, Unwrap(hit).normal)

\* ------------------------------------------------------------------------
\* Named segments and rays of the scenes above
\* ------------------------------------------------------------------------
Wall(state) == <<Pt(10, 0), Pt(10, 100), state>>

BackWall(state) == <<Pt(-10, 0), Pt(-10, 100), state>>

Slant(state) == <<Pt(0, 45), Pt(10, 55), state>>

Ceiling(state) == <<Pt(0, 60), Pt(10, 60), state>>

East == Vec(1, 0, 1)

West == Vec(-1, 0, 1)

North == Vec(0, 1, 1)

South == Vec(0, -1, 1)

\* The ray of the spec's example: origin (0, 50), direction (1, 0)
ExampleRay == Ray(Pt(0, 50), East, LaserColor)

\* ------------------------------------------------------------------------
\* C1.  solve_collisions never holds, and so never returns, more than
\* MAX_RAYS lines: for every scene, every ray and every cap of the model the
\* length of lines_stack is at most MAX_RAYS, two facing mirrors with the ray
\* perpendicular between them included.
\* ------------------------------------------------------------------------
C1_AtMostMaxRays == Len(lines_stack) <= MAX_RAYS

\* Two parallel mirrors facing each other, the ray perpendicular between
\* them: the call has returned with the cap reached and a ray still queued
C1_Witness ==
    /\ pc = "done"
    /\ segments = <<BackWall("Reflective"), Wall("Reflective")>>
    /\ ray = ExampleRay
    /\ MAX_RAYS = 3
    /\ Len(lines_stack) = MAX_RAYS
    /\ ray_stack # <<>>

\* ------------------------------------------------------------------------
\* C2.  Every call of solve_collisions returns.  Variant counts what the
\* call can still do: the lines the cap still allows (three units each, a
\* hit queues at most two rays for the one it takes), the rays queued, and
\* the steps to "done".  It is a natural number in every state and every
\* step of the call - entering, a pass that discards, misses or hits,
\* leaving by `break` or on the empty queue - makes it smaller, so no call
\* takes more than Variant steps, also between two mirrors that bounce the
\* ray for ever.
\* ------------------------------------------------------------------------
Variant ==
    (CASE pc = "call" -> 3 [] pc = "loop" -> 1 [] pc = "done" -> 0)
    + 3 * (MAX_RAYS - Len(lines_stack)) + Len(ray_stack)

C2_Terminates == [](Variant \in Nat) /\ [][Variant' < Variant]_vars

\* Two mirrors facing each other bounce the ray for ever: the call has
\* returned all the same, by `break`, a ray still queued
C2_Witness ==
    /\ pc = "done"
    /\ segments = <<Wall("Reflective"), BackWall("Reflective")>>
    /\ ray = Ray(Pt(0, 50), West, LaserColor)
    /\ MAX_RAYS = MaxRaysBound
    /\ ray_stack # <<>>
    /\ last.kind = "hit"

\* ------------------------------------------------------------------------
\* The ray the next pass takes, and what it meets
\* ------------------------------------------------------------------------
\* The element pop_front returns next
Front == Head(ray_stack)

\* The next pass takes a ray whose energy is above the threshold
FrontLive == pc = "loop" /\ ray_stack # <<>> /\ ~EnergySpent(Front.ray.color)

\* segment j is not the one the ray of entry left from (the `continue` of
\* find_closest_segment_new)
Other(entry, j) == entry.segment = None \/ segments[j] # Unwrap(entry.segment)

\* ray.collides_with(&segment) for segment j of the scene
HitAt(r, j) == collides_with(r, <<segments[j][1], segments[j][2]>>)

\* The ray r meets segment j nearer than the point the search starts from,
\* origin + direction * MAX_DISTANCE
InRange(r, j) ==
    /\ HitAt(r, j) # None
    /\ distance_squared(r.origin, Unwrap(HitAt(r, j)).position)
         < distance_squared(r.origin, Along(r.origin, r.direction, MAX_DISTANCE))

\* The ray of entry hits segment j within reach, and every other segment it
\* hits further away
Closest(entry, j) ==
    /\ Other(entry, j)
    /\ InRange(entry.ray, j)
    /\ \A k \in 1..Len(segments) :
          (k # j /\ Other(entry, k) /\ HitAt(entry.ray, k) # None)
          => distance_squared(entry.ray.origin, Unwrap(HitAt(entry.ray, j)).position)
               < distance_squared(entry.ray.origin, Unwrap(HitAt(entry.ray, k)).position)

\* The line of a ray that leaves the scene
Escape(r) == <<r.origin, Along(r.origin, r.direction, MAX_DISTANCE), r.color>>

\* ------------------------------------------------------------------------
\* C3.  A ray above the energy threshold that meets no segment (the one it
\* left from aside) adds exactly one line, from its origin to
\* origin + direction * MAX_DISTANCE in its own colour, and queues no ray;
\* and on the empty scene the call returns exactly that one line for the
\* initial ray.
\* ------------------------------------------------------------------------
C3_MissLeavesScene ==
    /\ []((pc = "done" /\ segments = <<>>) => lines_stack = <<Escape(ray)>>)
    /\ [][(/\ FrontLive
           /\ \A j \in 1..Len(segments) :
                 Other(Front, j) => HitAt(Front.ray, j) = None)
          => (/\ lines_stack' = Append(lines_stack, Escape(Front.ray))
              /\ ray_stack' = Tail(ray_stack))]_vars

\* A ray sent up to a mirror comes back down, meets nothing but the mirror
\* it left from, and is drawn MAX_DISTANCE long
C3_Witness ==
    /\ pc = "done"
    /\ segments = <<Ceiling("Reflective")>>
    /\ ray = Ray(Pt(5, 20), North, LaserColor)
    /\ last.kind = "miss"
    /\ lines_stack = << <<Pt(5, 20), Pt(5, 60), LaserColor>>,
                        <<Pt(5, 60), Pt(5, 60 - MAX_DISTANCE), LaserColor>> >>

\* ------------------------------------------------------------------------
\* C4.  A ray above the energy threshold whose closest hit is on an
\* Absorptive segment adds the line from its origin to the hit point and
\* queues no ray; and against a single Absorptive segment in front of the
\* initial ray, within its reach, the call returns exactly one line, ending
\* at the hit point.
\* ------------------------------------------------------------------------
C4_AbsorptiveEnds ==
    /\ []((/\ pc = "done"
           /\ Len(segments) = 1
           /\ segments[1][3] = "Absorptive"
           /\ InRange(ray, 1))
          => lines_stack = << <<ray.origin, Unwrap(HitAt(ray, 1)).position, ray.color>> >>)
    /\ [][\A j \in 1..Len(segments) :
             (FrontLive /\ segments[j][3] = "Absorptive" /\ Closest(Front, j))
             => (/\ lines_stack' =
                      Append(lines_stack,
                             <<Front.ray.origin,
                               Unwrap(HitAt(Front.ray, j)).position,
                               Front.ray.color>>)
                 /\ ray_stack' = Tail(ray_stack))]_vars

\* The wall at x = 10 absorbs the ray of the example
C4_Witness ==
    /\ pc = "done"
    /\ segments = <<Wall("Absorptive")>>
    /\ ray = ExampleRay
    /\ last.kind = "hit"
    /\ last.children = <<>>
    /\ lines_stack = << <<Pt(0, 50), Pt(10, 50), LaserColor>> >>

\* ------------------------------------------------------------------------
\* C5.  A ray above the energy threshold whose closest hit is on a
\* Transparent segment, the incidence not critical, queues exactly two rays
\* at the hit point, the reflected one and then the transmitted one, and the
\* two colours add up, component by component, to the colour of the ray.
\* ------------------------------------------------------------------------
\* c1 + c2 = c, the children one power of ColorBase finer than the parent
SumsTo(c1, c2, c) ==
    /\ c1.e = c.e + 1
    /\ c2.e = c.e + 1
    /\ BigAdd(c1.r, c2.r) = BigMul(c.r, ColorBase)
    /\ BigAdd(c1.g, c2.g) = BigMul(c.g, ColorBase)
    /\ BigAdd(c1.b, c2.b) = BigMul(c.b, ColorBase)
    /\ BigAdd(c1.a, c2.a) = BigMul(c.a, ColorBase)

C5_TransparentSplits ==
    [][\A j \in 1..Len(segments) :
          (/\ FrontLive
           /\ segments[j][3] = "Transparent"
           /\ Closest(Front, j)
           /\ ~IsCritical(Unwrap(HitAt(Front.ray, j)).normal, Front.ray.direction))
          => LET n == Len(ray_stack')
                 hit == Unwrap(HitAt(Front.ray, j))
             IN /\ n = Len(ray_stack) + 1
                /\ SubSeq(ray_stack', 1, n - 2) = Tail(ray_stack)
                /\ ray_stack'[n - 1].ray.origin = hit.position
                /\ ray_stack'[n - 1].ray.direction = reflect(Front.ray.direction, hit.normal)
                /\ ray_stack'[n].ray.origin = hit.position
                /\ ray_stack'[n].ray.direction = Front.ray.direction
                /\ SumsTo(ray_stack'[n - 1].ray.color, ray_stack'[n].ray.color,
                          Front.ray.color)]_vars

\* The ray of the example meets the slanted pane at 45 degrees: two rays are
\* queued, 703/800 of the colour reflected and 97/800 transmitted
C5_Witness ==
    /\ pc = "loop"
    /\ segments = <<Slant("Transparent")>>
    /\ ray = ExampleRay
    /\ Len(lines_stack) = 1
    /\ Len(ray_stack) = 2
    /\ ray_stack[1].ray.color.a = <<703>>
    /\ ray_stack[2].ray.color.a = <<97>>
    /\ ray_stack[2].ray.direction = East

\* ------------------------------------------------------------------------
\* The lines of a call and the rays that drew them
\* ------------------------------------------------------------------------
\* Line i was drawn by a pass that hit a Transparent segment, the incidence
\* not critical
SplitAt(i) ==
    /\ passes[i].kind = "hit"
    /\ Unwrap(passes[i].found).segment[3] = "Transparent"
    /\ ~IsCritical(Unwrap(passes[i].found).collision.normal,
                   Unwrap(passes[i].entry).ray.direction)

\* The output holds a line drawn by the queued ray child, starting where the
\* ray of line i hit
Continues(i, child) ==
    \E j \in 1..Len(lines_stack) :
        /\ passes[j].entry = Some(child)
        /\ lines_stack[j][1] = Unwrap(passes[i].found).collision.position

\* The call has returned on the empty queue: no queued ray was cut by the cap
RanOut == pc = "done" /\ ray_stack = <<>>

\* ------------------------------------------------------------------------
\* C6 as stated.  When the call has returned with no ray cut by the cap,
\* every line whose ray hit a Transparent segment at non-critical incidence
\* is followed in the output by two lines starting at the hit point, one of
\* the reflected and one of the transmitted ray, at any incidence angle.
\* ------------------------------------------------------------------------
C6_BothContinue ==
    RanOut =>
        \A i \in 1..Len(passes) :
            SplitAt(i) =>
                /\ Len(passes[i].children) = 2
                /\ \A k \in 1..2 : Continues(i, passes[i].children[k])

\* ------------------------------------------------------------------------
\* C6.  When the call has returned with no ray cut by the cap, every line
\* whose ray hit a Transparent segment at non-critical incidence has queued
\* two rays, and each of the two whose energy is above the threshold 0.1
\* has drawn a line starting at the hit point; a child at or below the
\* threshold (the reflected one at perpendicular incidence carries 0.03 of
\* the energy) draws none.
\* ------------------------------------------------------------------------
C6_LiveChildrenContinue ==
    RanOut =>
        \A i \in 1..Len(passes) :
            SplitAt(i) =>
                /\ Len(passes[i].children) = 2
                /\ \A k \in 1..2 :
                      Continues(i, passes[i].children[k])
                      <=> ~EnergySpent(passes[i].children[k].ray.color)

\* The ray of the example meets the slanted pane at 45 degrees; the
\* reflected ray (703/800) and the transmitted one (97/800) each draw a line
\* from (5, 50)
C6_Witness ==
    /\ RanOut
    /\ segments = <<Slant("Transparent")>>
    /\ ray = ExampleRay
    /\ Len(lines_stack) = 3
    /\ SplitAt(1)
    /\ lines_stack[2][1] = Pt(5, 50)
    /\ lines_stack[3][1] = Pt(5, 50)
    /\ lines_stack[3][2] = Pt(5 + MAX_DISTANCE, 50)

\* ------------------------------------------------------------------------
\* C7.  On the scene of one Reflective segment from (10, 0) to (10, 100),
\* the ray at (0, 50) with direction (1, 0), and a cap of at least two, the
\* call returns exactly two lines in this order: (0, 50) to (10, 50), then
\* (10, 50) to (10 - MAX_DISTANCE, 50), the second drawn by a queued ray of
\* direction (-1, 0).
\* ------------------------------------------------------------------------
C7_MirrorExample ==
    (/\ pc = "done"
     /\ segments = <<Wall("Reflective")>>
     /\ ray = ExampleRay
     /\ MAX_RAYS >= 2)
    => /\ Len(lines_stack) = 2
       /\ lines_stack[1][1] = Pt(0, 50)
       /\ lines_stack[1][2] = Pt(10, 50)
       /\ lines_stack[2][1] = Pt(10, 50)
       /\ lines_stack[2][2] = Pt(10 - MAX_DISTANCE, 50)
       /\ Unwrap(passes[2].entry).ray.direction = Vec(-1, 0, 1)
       /\ Unwrap(passes[2].entry).gen = 1

\* The call of the example has returned
C7_Witness ==
    /\ pc = "done"
    /\ segments = <<Wall("Reflective")>>
    /\ ray = ExampleRay
    /\ MAX_RAYS = 3
    /\ ray_stack = <<>>
    /\ last.kind = "miss"
    /\ Unwrap(last.entry).ray.direction = West

\* ------------------------------------------------------------------------
\* C8.  The output is in queue order, breadth first.  Rays leave the queue
\* in the order they entered it: the queue holds them in the order of
\* enqueueing, each later than the ray of the latest pass, and the lines of
\* the output follow the order of enqueueing of their rays.  And no line of
\* a ray of split generation g + 1 comes before a line of a ray of
\* generation g.
\* ------------------------------------------------------------------------
C8_QueueOrder ==
    /\ \A i, j \in 1..Len(ray_stack) :
          i < j => ray_stack[i].id < ray_stack[j].id
    /\ \A i \in 1..Len(ray_stack) :
          last.kind # "none" => Unwrap(last.entry).id < ray_stack[i].id
    /\ \A i, j \in 1..Len(lines_stack) :
          i < j => /\ Unwrap(passes[i].entry).id < Unwrap(passes[j].entry).id
                   /\ Unwrap(passes[i].entry).gen <= Unwrap(passes[j].entry).gen

\* Four lines: the initial ray, the two rays of its split, then a ray of
\* the generation after
C8_Witness ==
    /\ Len(lines_stack) >= 4
    /\ Unwrap(passes[1].entry).gen = 0
    /\ Unwrap(passes[2].entry).gen = 1
    /\ Unwrap(passes[3].entry).gen = 1
    /\ Unwrap(passes[4].entry).gen = 2

\* ------------------------------------------------------------------------
\* C9.  The cap only truncates.  The call that has returned under the cap
\* MAX_RAYS returned lines_stack; for the same ray and scene every cap N
\* from 1 to MAX_RAYS returns the first min(N, Len(lines_stack)) of these
\* lines.
\* ------------------------------------------------------------------------
Min(a, b) == IF a <= b THEN a ELSE b

C9_CapTruncates ==
    pc = "done" =>
        \A N \in 1..MAX_RAYS :
            solve_collisions(ray, segments, N)
                = SubSeq(lines_stack, 1, Min(N, Len(lines_stack)))

\* Between two facing mirrors the cap 4 cut the call at four lines, and the
\* caps below it cut the same call earlier
C9_Witness ==
    /\ pc = "done"
    /\ segments = <<Wall("Reflective"), BackWall("Reflective")>>
    /\ ray = ExampleRay
    /\ MAX_RAYS = 4
    /\ Len(lines_stack) = 4
    /\ Len(solve_collisions(ray, segments, 2)) = 2

\* ------------------------------------------------------------------------
\* C10.  A ray taken from the queue with alpha at or below 0.1 is dropped:
\* the pass adds no line and queues no ray.  Hence every line of the output
\* has alpha above 0.1.
\* ------------------------------------------------------------------------
C10_SpentRayDropped ==
    /\ [](\A i \in 1..Len(lines_stack) : ~EnergySpent(lines_stack[i][3]))
    /\ [][(pc = "loop" /\ ray_stack # <<>> /\ EnergySpent(Front.ray.color))
          => (/\ lines_stack' = lines_stack
              /\ ray_stack' = Tail(ray_stack))]_vars

\* The wall passes 0.97 of the ray and reflects 0.03: the reflected ray has
\* been dropped, only the transmitted one drew a line
C10_Witness ==
    /\ pc = "done"
    /\ segments = <<Wall("Transparent")>>
    /\ ray = ExampleRay
    /\ MAX_RAYS = 4
    /\ Len(lines_stack) = 2
    /\ lines_stack[2][3].a = <<776>>
    /\ pushes = 3

\* ------------------------------------------------------------------------
\* The search of a queued ray
\* ------------------------------------------------------------------------
\* What find_closest_segment_new returns for the queue element entry
Found(entry) == find_closest_segment_new(entry.ray, segments, entry.segment)

\* The segments the ray of entry meets, the one it left from aside
Candidates(entry) ==
    { j \in 1..Len(segments) : Other(entry, j) /\ HitAt(entry.ray, j) # None }

\* distance_squared from the origin of the ray of entry to where it meets
\* segment j
HitDistance(entry, j) ==
    distance_squared(entry.ray.origin, Unwrap(HitAt(entry.ray, j)).position)

\* ------------------------------------------------------------------------
\* C11.  A ray that left from a segment never hits that segment: in every
\* pass of a ray queued with a segment the search returned another segment
\* or nothing; and for every queued ray that left from a segment, any
\* different segment it meets within reach keeps the search from coming
\* back empty.
\* ------------------------------------------------------------------------
C11_NeverOwnSegment ==
    /\ \A i \in 1..Len(passes) :
          (Unwrap(passes[i].entry).segment # None /\ passes[i].found # None)
          => Unwrap(passes[i].found).segment # Unwrap(Unwrap(passes[i].entry).segment)
    /\ \A i \in 1..Len(ray_stack) :
          ray_stack[i].segment # None
          => \A found \in { Found(ray_stack[i]) } :
                /\ found # None => Unwrap(found).segment # Unwrap(ray_stack[i].segment)
                /\ \A j \in 1..Len(segments) :
                      (segments[j] # Unwrap(ray_stack[i].segment)
                       /\ InRange(ray_stack[i].ray, j))
                      => found # None

\* The ray reflected by the wall at x = 10 starts on that wall, which
\* collides_with reports as a hit at distance 0; the search returned the
\* wall at x = -10
C11_Witness ==
    /\ segments = <<Wall("Reflective"), BackWall("Reflective")>>
    /\ ray = ExampleRay
    /\ last.kind = "hit"
    /\ Unwrap(last.entry).segment = Some(Wall("Reflective"))
    /\ collides_with(Unwrap(last.entry).ray, <<Pt(10, 0), Pt(10, 100)>>) # None
    /\ Unwrap(last.found).segment = BackWall("Reflective")
    /\ Unwrap(last.found).collision.position = Pt(-10, 50)

\* ------------------------------------------------------------------------
\* C12 as stated.  For every queued ray the search returns a hit whenever
\* the ray meets a segment other than the one it left from, and the hit
\* returned is at the least squared distance among all of these.
\* ------------------------------------------------------------------------
C12_ClosestOfAll ==
    \A i \in 1..Len(ray_stack) :
        \A found \in { Found(ray_stack[i]) } :
            /\ Candidates(ray_stack[i]) # {} => found # None
            /\ found # None
               => /\ \E j \in Candidates(ray_stack[i]) :
                        /\ Unwrap(found).segment = segments[j]
                        /\ Unwrap(found).collision = Unwrap(HitAt(ray_stack[i].ray, j))
                  /\ \A k \in Candidates(ray_stack[i]) :
                        distance_squared(ray_stack[i].ray.origin,
                                         Unwrap(found).collision.position)
                          <= HitDistance(ray_stack[i], k)

\* ------------------------------------------------------------------------
\* C12.  For every queued ray the search returns a hit exactly when the ray
\* meets a segment, other than the one it left from, at a squared distance
\* below that of origin + direction * MAX_DISTANCE; the hit returned is the
\* one collides_with gives for that segment and is at the least squared
\* distance among the segments the ray meets.  A segment met at
\* MAX_DISTANCE or further is no hit.
\* ------------------------------------------------------------------------
C12_ClosestInReach ==
    \A i \in 1..Len(ray_stack) :
        \A found \in { Found(ray_stack[i]) } :
            /\ found # None
               <=> \E j \in Candidates(ray_stack[i]) : InRange(ray_stack[i].ray, j)
            /\ found # None
               => /\ \E j \in Candidates(ray_stack[i]) :
                        /\ InRange(ray_stack[i].ray, j)
                        /\ Unwrap(found).segment = segments[j]
                        /\ Unwrap(found).collision = Unwrap(HitAt(ray_stack[i].ray, j))
                  /\ \A k \in Candidates(ray_stack[i]) :
                        distance_squared(ray_stack[i].ray.origin,
                                         Unwrap(found).collision.position)
                          <= HitDistance(ray_stack[i], k)

\* The ray of the example meets the wall at (10, 50) and, nearer, the slanted
\* segment at (5, 50), which comes second in the scene: the search returns
\* the slanted segment
C12_Witness ==
    /\ pc = "loop"
    /\ segments = <<Wall("Absorptive"), Slant("Absorptive")>>
    /\ ray = ExampleRay
    /\ lines_stack = <<>>
    /\ Candidates(Front) = {1, 2}
    /\ Unwrap(Found(Front)).segment = Slant("Absorptive")
    /\ Unwrap(Found(Front)).collision.position = Pt(5, 50)

\* ------------------------------------------------------------------------
\* C13.  A ray above the energy threshold whose closest hit is on a
\* Reflective segment queues exactly one ray: its origin is the hit point,
\* its direction reflect(incoming direction, hit normal), its colour the
\* colour of the parent unchanged, and the segment it leaves from the
\* segment hit.
\* ------------------------------------------------------------------------
C13_MirrorQueuesOne ==
    [][\A j \in 1..Len(segments) :
          (FrontLive /\ segments[j][3] = "Reflective" /\ Closest(Front, j))
          => LET n == Len(ray_stack')
                 hit == Unwrap(HitAt(Front.ray, j))
             IN /\ n = Len(ray_stack)
                /\ SubSeq(ray_stack', 1, n - 1) = Tail(ray_stack)
                /\ ray_stack'[n].ray =
                       Ray(hit.position, reflect(Front.ray.direction, hit.normal),
                           Front.ray.color)
                /\ ray_stack'[n].segment = Some(segments[j])]_vars

\* The slanted mirror turns the ray of the example north at (5, 50), at full
\* colour
C13_Witness ==
    /\ pc = "loop"
    /\ segments = <<Slant("Reflective")>>
    /\ ray = ExampleRay
    /\ Len(lines_stack) = 1
    /\ Len(ray_stack) = 1
    /\ ray_stack[1].ray = Ray(Pt(5, 50), North, LaserColor)
    /\ ray_stack[1].segment = Some(Slant("Reflective"))

\* ------------------------------------------------------------------------
\* C15.  At a Transparent hit, incidence not critical, the ray queued last
\* is the transmitted one: its origin is the hit point, its direction the
\* direction of the incoming ray, and the segment it leaves from the
\* segment hit.  So no ray that left from a Transparent segment hits that
\* segment next.
\* ------------------------------------------------------------------------
C15_TransmittedGoesOn ==
    /\ [](\A i \in 1..Len(passes) :
             (/\ Unwrap(passes[i].entry).segment # None
              /\ Unwrap(Unwrap(passes[i].entry).segment)[3] = "Transparent"
              /\ passes[i].found # None)
             => Unwrap(passes[i].found).segment
                  # Unwrap(Unwrap(passes[i].entry).segment))
    /\ [][\A j \in 1..Len(segments) :
             (/\ FrontLive
              /\ segments[j][3] = "Transparent"
              /\ Closest(Front, j)
              /\ ~IsCritical(Unwrap(HitAt(Front.ray, j)).normal, Front.ray.direction))
             => LET transmitted == ray_stack'[Len(ray_stack')]
                IN /\ transmitted.ray.origin = Unwrap(HitAt(Front.ray, j)).position
                   /\ transmitted.ray.direction = Front.ray.direction
                   /\ transmitted.segment = Some(segments[j])]_vars

\* The ray of the example passes the slanted pane at (5, 50) and goes on
\* east to the wall at x = 10: the third line is its
C15_Witness ==
    /\ segments = <<Slant("Transparent"), Wall("Absorptive")>>
    /\ ray = ExampleRay
    /\ Len(lines_stack) = 3
    /\ Unwrap(passes[3].entry).segment = Some(Slant("Transparent"))
    /\ Unwrap(passes[3].entry).ray.direction = East
    /\ lines_stack[3][1] = Pt(5, 50)
    /\ lines_stack[3][2] = Pt(10, 50)
    /\ Unwrap(passes[3].found).segment = Wall("Absorptive")

\* ------------------------------------------------------------------------
\* The intersection primitive and the split on their own: one ray, one
\* segment.  Probe applies Ray::collides_with to them, Split applies the
\* match of solve_collisions to the hit.
\* ------------------------------------------------------------------------
\* Origins of the rays and end points of the segments
ProbeOrigins == { Pt(x, y) : x \in {0, 2, 4, 6}, y \in {0, 2, 4, 6} }

ProbeEnds == { Pt(x, y) : x \in {0, 4, 8}, y \in {0, 4, 8} }

\* Unit directions along the axes and the diagonals
ProbeDirections ==
    AxisDirections \cup { Vec(1, 1, 2), Vec(-1, 1, 2), Vec(1, -1, 2), Vec(-1, -1, 2) }

\* A pane that the ray from (-10, 57) heading east meets at (65, 57) at the
\* critical angle: its normal is (-57, 65)/sqrt(7474), the cosine squared
\* 3249/7474 = 0.43471
CriticalPane(state) == <<Pt(0, 0), Pt(130, 114), state>>

CriticalRay == Ray(Pt(-10, 57), East, LaserColor)

ProbeRays ==
    { Ray(o, d, LaserColor) : o \in ProbeOrigins, d \in ProbeDirections }
    \cup { CriticalRay }

\* Segments between the end points, those of length zero (start = end: an
\* edge between two nodes at one position) among them
ProbeSegments ==
    { <<ends[1], ends[2], state>> : ends \in ProbeEnds \X ProbeEnds, state \in EdgeState }
    \cup { CriticalPane(state) : state \in EdgeState }

\* The arithmetic of the model is exact on this hit: the hit point is a grid
\* position and, where the split weight is computed, it is a whole number of
\* units 1/ColorBase
ExactSplit(r, segment, collision) ==
    /\ HitOnGrid(r, <<segment[1], segment[2]>>)
    /\ \/ segment[3] # "Transparent"
       \/ IsCritical(collision.normal, r.direction)
       \/ /\ r.direction.s * collision.normal.s <= 4
          /\ FresnelExact(r.direction, collision.normal)

ProbeInit ==
    /\ segments \in { <<segment>> : segment \in ProbeSegments }
    /\ ray \in ProbeRays
    /\ MAX_RAYS = 1
    /\ ray_stack = <<>>
    /\ lines_stack = <<>>
    /\ pc = "probe"
    /\ passes = <<>>
    /\ pushes = 1
    /\ last = NoPass
    /\ NodeNetwork_new
    /\ TuningDefault
    /\ BuildersIdle

\* ray.collides_with((segment.0, segment.1))
Probe ==
    /\ pc = "probe"
    /\ \E hit \in { collides_with(ray, <<segments[1][1], segments[1][2]>>) } :
          last' = PassOf("probe", Some(Entry(ray, None, 0, 0)),
                         IF hit = None THEN None
                         ELSE Some([collision |-> Unwrap(hit), segment |-> segments[1]]),
                         <<>>)
    /\ pc' = "probed"
    /\ UNCHANGED <<segments, ray, MAX_RAYS, ray_stack, lines_stack, passes, pushes>>
    /\ UNCHANGED <<network, tuning, builders>>

\* `match segment.2 { .. }` on the hit: the rays pushed
Split ==
    /\ pc = "probed"
    /\ last.found # None
    /\ ExactSplit(ray, segments[1], Unwrap(last.found).collision)
    /\ ray_stack' = Pushed(Children(ray, Unwrap(last.found).collision, segments[1]),
                           Some(segments[1]), Unwrap(last.entry), pushes)
    /\ pc' = "split"
    /\ UNCHANGED <<segments, ray, MAX_RAYS, lines_stack, passes, pushes, last>>
    /\ UNCHANGED <<network, tuning, builders>>

ProbeNext ==
    \/ Probe
    \/ Split

ProbeSpec == ProbeInit /\ [][ProbeNext]_vars

Cross(a, b) == a.x * b.y - a.y * b.x

\* t = TNum * sqrt(direction.s) / Det and u = UNum / Det
Det == Cross(ray.direction, Sub(segments[1][2], segments[1][1]))

TNum == Cross(Sub(segments[1][1], ray.origin), Sub(segments[1][2], segments[1][1]))

UNum == Cross(Sub(segments[1][1], ray.origin), ray.direction)

\* p lies on the segment from start to end
OnSegment(p, start, end) ==
    /\ Cross(Sub(p, start), Sub(end, start)) = 0
    /\ 0 <= DotN(Sub(p, start), Sub(end, start))
    /\ DotN(Sub(p, start), Sub(end, start)) <= length_squared(Sub(end, start))

Degenerate(segment) == segment[1] = segment[2]

C21_DegenerateNeverHit ==
    Degenerate(segments[1])
    => /\ pc # "probe" => last.found = None
       /\ pc # "split"
       /\ ray_stack = <<>>

\* The ray from (0, 4) heading east runs through the point (4, 4), which is
\* both ends of the segment, and no hit is found
C21_Witness ==
    /\ pc = "probed"
    /\ segments = << <<Pt(4, 4), Pt(4, 4), "Reflective">> >>
    /\ ray = Ray(Pt(0, 4), East, LaserColor)
    /\ last.found = None

\* ------------------------------------------------------------------------
\* NodeNetwork (lib.rs 506-716): nodes under ids, edges between ids
\* ------------------------------------------------------------------------
MaxAdds == 2           \* nodes added in a run of the model

MaxEdges == 1          \* edges held at a time

DefaultRadius == 8     \* Node::new_default_radius

\* Node::new(position, radius); ..Default::default() leaves is_dragged false
Node(position, radius) ==
    [position |-> position, radius |-> radius, is_dragged |-> FALSE]

\* Edge::new(a, b): a new edge is Reflective
Edge(a, b) == [a |-> a, b |-> b, state |-> "Reflective"]

\* Edge::cycle_state
cycle_state(state) ==
    CASE state = "Reflective" -> "Absorptive"
      [] state = "Absorptive" -> "Transparent"
      [] state = "Transparent" -> "Reflective"

\* Positions given to new nodes and the ids named in calls of add_connection
NodePositions == { Pt(10, 0), Pt(10, 100) }

NodeIds == 0..(MaxAdds - 1)

\* self.nodes.insert(id, node)
Inserted(id, node) ==
    [i \in DOMAIN nodes \cup {id} |-> IF i = id THEN node ELSE nodes[i]]

\* self.nodes.remove(&index)
Removed(index) == [i \in DOMAIN nodes \ {index} |-> nodes[i]]

\* self.nodes.get(&id) is Some
Known(id) == id \in DOMAIN nodes

\* The first edge whose end `a` is no node: `self.nodes[&edge.a]` panics
\* there; Len(connections) + 1 if there is none
FirstPanic ==
    CHOOSE i \in 1..(Len(connections) + 1) :
        /\ i <= Len(connections) => ~Known(connections[i].a)
        /\ \A j \in 1..(i - 1) : Known(connections[j].a)

\* The end points update gives the edge: position of a, and of b or
\* Vec2::new(0.0, 0.0) (lines 561-568)
Resolution(edge) ==
    [a |-> edge.a,
     b |-> edge.b,
     known |-> Known(edge.b),
     pos1 |-> nodes[edge.a].position,
     pos2 |-> IF Known(edge.b) THEN nodes[edge.b].position ELSE Pt(0, 0)]

NetInit ==
    /\ NodeNetwork_new
    /\ TuningDefault
    /\ BuildersIdle
    /\ segments = <<>>
    /\ ray = ExampleRay
    /\ MAX_RAYS = 1
    /\ ray_stack = <<>>
    /\ lines_stack = <<>>
    /\ pc = "frame"
    /\ passes = <<>>
    /\ pushes = 0
    /\ last = NoPass

\* self.nodes.insert(self.key, Node::new_default_radius(position)); the id
\* returned is the key before the call
add_node ==
    /\ fault # "panic"
    /\ Len(returned) < MaxAdds
    /\ \E position \in NodePositions :
          nodes' = Inserted(key, Node(position, DefaultRadius))
    /\ key' = key + 1
    /\ returned' = Append(returned, key' - 1)
    /\ resolved' = <<>>
    /\ fault' = "none"
    /\ UNCHANGED <<connections, segments, solve, tuning, builders, editor>>

\* self.nodes.insert(self.key, Node::new(position, radius))
add_node_with_radius ==
    /\ fault # "panic"
    /\ Len(returned) < MaxAdds
    /\ \E position \in NodePositions, radius \in {2} :
          nodes' = Inserted(key, Node(position, radius))
    /\ key' = key + 1
    /\ returned' = Append(returned, key' - 1)
    /\ resolved' = <<>>
    /\ fault' = "none"
    /\ UNCHANGED <<connections, segments, solve, tuning, builders, editor>>

\* Called by handle_mouse for the node under the middle button
remove_node ==
    /\ fault # "panic"
    /\ \E index \in NodeIds :
          /\ connections' =
                 IF Known(index)
                 THEN SelectSeq(connections,
                                LAMBDA edge : edge.a # index /\ edge.b # index)
                 ELSE connections
          /\ nodes' = Removed(index)
    /\ resolved' = <<>>
    /\ fault' = "none"
    /\ UNCHANGED <<key, returned, segments, solve, tuning, builders, editor>>

clean ==
    /\ fault # "panic"
    /\ nodes' = [id \in {} |-> None]
    /\ connections' = <<>>
    /\ key' = 0
    /\ resolved' = <<>>
    /\ fault' = "none"
    /\ dragged_node' = None
    /\ selected_node' = None
    /\ UNCHANGED <<returned, segments, solve, tuning, builders>>

\* The ids are not looked up: an edge is pushed unless the same pair is
\* connected already, in either order
add_connection ==
    /\ fault # "panic"
    /\ \E prev_conn \in NodeIds, cur_conn \in NodeIds :
          connections' =
              IF \E i \in 1..Len(connections) :
                    \/ connections[i].a = prev_conn /\ connections[i].b = cur_conn
                    \/ connections[i].a = cur_conn /\ connections[i].b = prev_conn
              THEN connections
              ELSE Append(connections, Edge(prev_conn, cur_conn))
    /\ Len(connections') <= MaxEdges
    /\ resolved' = <<>>
    /\ fault' = "none"
    /\ UNCHANGED <<nodes, key, returned, segments, solve, tuning, builders, editor>>

\* update with no node selected or dragged and the right and middle buttons
\* up: the loop over the edges.  `clicked` is the edge under the pointer
\* while the left button is pressed, 0 for none.
update ==
    /\ fault # "panic"
    /\ \E clicked \in 0..Len(connections) :
          connections' =
              [i \in 1..Len(connections) |->
                  IF i = clicked /\ i < FirstPanic
                  THEN [connections[i] EXCEPT !.state = cycle_state(@)]
                  ELSE connections[i]]
    /\ resolved' = [i \in 1..(FirstPanic - 1) |-> Resolution(connections[i])]
    /\ fault' = IF FirstPanic <= Len(connections) THEN "panic"
                ELSE IF \E i \in 1..Len(connections) : ~Known(connections[i].b)
                     THEN "logged"
                     ELSE "none"
    /\ UNCHANGED <<nodes, key, returned, segments, solve, tuning, builders, editor>>

\* segments = network.get_all_connections() (main.rs 123): both ends are
\* indexed, a missing one panics
get_all_connections ==
    /\ fault # "panic"
    /\ IF \A i \in 1..Len(connections) :
             Known(connections[i].a) /\ Known(connections[i].b)
       THEN /\ segments' = [i \in 1..Len(connections) |->
                               <<nodes[connections[i].a].position,
                                 nodes[connections[i].b].position,
                                 connections[i].state>>]
            /\ fault' = "none"
       ELSE /\ segments' = segments
            /\ fault' = "panic"
    /\ resolved' = <<>>
    /\ UNCHANGED <<nodes, connections, key, returned, solve, tuning, builders, editor>>

NetNext ==
    \/ add_node
    \/ add_node_with_radius
    \/ remove_node
    \/ clean
    \/ add_connection
    \/ update
    \/ get_all_connections

NetSpec == NetInit /\ [][NetNext]_vars

\* ------------------------------------------------------------------------
\* C16.  An edge whose end is no node is never given a default position
\* such as (0, 0) in place of the missing end: every place that resolves
\* the ends of edges reports the fault instead.
\* ------------------------------------------------------------------------
C16_NoDefaultPosition ==
    \A i \in 1..Len(resolved) :
        ~resolved[i].known => resolved[i].pos2 # Pt(0, 0)

\* ------------------------------------------------------------------------
\* C17.  Every id returned by add_node or add_node_with_radius differs from
\* every id returned before, whatever removals and calls of clean lie
\* between.
\* ------------------------------------------------------------------------
C17_IdsNeverReused ==
    \A i, j \in 1..Len(returned) : i # j => returned[i] # returned[j]

\* ------------------------------------------------------------------------
\* Rays that are not of length 1.  Laser::new takes any direction and
\* look_at leaves the zero vector when the laser looks at its own position.
\* The only test of the length is the debug_assert of lines 349-351: a
\* debug build panics there, a release build compiles the test out and
\* runs the body of the loop.
\* ------------------------------------------------------------------------
\* The zero vector and two directions of length 2
NonUnitDirections == { Vec(0, 0, 1), Vec(2, 0, 1), Vec(0, -2, 1) }

NonUnitRays == { Ray(o, d, LaserColor) : o \in RayOrigins, d \in NonUnitDirections }

\* Scenes without Transparent segments: the split weight of a ray longer
\* than 1 exceeds 1 and leaves the colours this model represents
OpaqueScenes ==
    SeqsUpTo({ segment \in SegmentPool : segment[3] # "Transparent" }, MaxSegs)

LaxInit ==
    /\ segments \in OpaqueScenes
    /\ ray \in NonUnitRays
    /\ MAX_RAYS \in 1..MaxRaysBound
    /\ ray_stack = <<>>
    /\ lines_stack = <<>>
    /\ pc = "call"
    /\ passes = <<>>
    /\ pushes = 0
    /\ last = NoPass
    /\ NodeNetwork_new
    /\ TuningDefault
    /\ BuildersIdle

\* debug_assert!(ray.direction.is_normalized(), ..) fails in a debug build:
\* the ray was popped and not discarded, the call panics
AssertFails ==
    /\ pc = "loop"
    /\ ray_stack # <<>>
    /\ ~Discards(pop_front(ray_stack).entry.ray)
    /\ ~is_normalized(pop_front(ray_stack).entry.ray.direction)
    /\ ray_stack' = pop_front(ray_stack).rest
    /\ pc' = "panic"
    /\ UNCHANGED <<segments, ray, MAX_RAYS, lines_stack, passes, pushes, last>>
    /\ UNCHANGED <<network, tuning, builders>>

LaxNext ==
    \/ Enter
    \/ Pass
    \/ Return
    \/ AssertFails

LaxSpec == LaxInit /\ [][LaxNext]_vars

\* ------------------------------------------------------------------------
\* C18.  A ray whose direction is not of length 1 is rejected when it enters
\* the solve: no line is produced from it.
\* ------------------------------------------------------------------------
C18_NonUnitRejected ==
    ~is_normalized(ray.direction) => lines_stack = <<>>

\* ------------------------------------------------------------------------
\* The intersection primitive in the arithmetic of the program (the f32
\* operators are defined above, before the state)
\* ------------------------------------------------------------------------
\* Ray::collides_with in f32
f32_collides_with(r, other) ==
    LET start == other[1]
        end == other[2]
        ray_dir == f32_normalize_or_zero(r.direction)
        ray_dir_perp == f32_perp(ray_dir)
        start_to_origin == f32_vsub(r.origin, start)
        line_segment == f32_vsub(end, start)
        denominator == f32_dot(line_segment, ray_dir_perp)
        t1 == f32_div(f32_perp_dot(line_segment, start_to_origin), denominator)
        t2 == f32_div(f32_dot(start_to_origin, ray_dir_perp), denominator)
    IN IF f32_lt(f32_abs(denominator), f32_EPSILON) THEN None
       ELSE IF /\ f32_ge(t1, f32_zero)
               /\ f32_ge(t2, f32_zero)
               /\ f32_ge(f32_from(1), t2)
            THEN LET collision == f32_vadd(r.origin, f32_scale(ray_dir, t1))
                     from_start == f32_vsub(collision, start)
                     normal_to_collision ==
                         IF f32_le(f32_dot(from_start, from_start), f32_EPSILON)
                         THEN f32_perp(f32_normalize(f32_vsub(collision, end)))
                         ELSE f32_perp(f32_normalize(from_start))
                 IN Some([position |-> collision, normal |-> normal_to_collision])
            ELSE None

\* Laser::look_at for a laser at `position`: the direction of the ray becomes
\* (target - position).normalize_or_zero()
look_at_direction(position, target) == f32_normalize_or_zero(f32_vsub(target, position))

\* A point with whole coordinates
f32_point(x, y) == f32_vec(f32_from(x), f32_from(y))

\* Where the laser stands, and where it is aimed relative to that
LaserPositions == { f32_point(0, 0), f32_point(0, 16), f32_point(16, 0), f32_point(-8, -8) }

AimOffsets ==
    { f32_point(40, 30), f32_point(-40, -30), f32_point(40, 9), f32_point(3, 4),
      f32_point(1, 0), f32_point(0, 1) }

\* A segment from (0, 0) along the unit vector towards `offset`, 512 long:
\* scaling by 512 only changes the exponents, so the segment is exactly
\* parallel to look_at_direction((0, 0), offset)
Along512(offset) ==
    <<f32_point(0, 0),
      f32_scale(look_at_direction(f32_point(0, 0), offset), f32_from(512)),
      "Reflective">>

FloatInit ==
    /\ segments \in { <<Along512(offset)>> : offset \in AimOffsets }
    /\ ray \in { Ray(position, f32_point(1, 0), LaserColor) : position \in LaserPositions }
    /\ MAX_RAYS = 1
    /\ ray_stack = <<>>
    /\ lines_stack = <<>>
    /\ pc = "float"
    /\ passes = <<>>
    /\ pushes = 1
    /\ last = NoPass
    /\ NodeNetwork_new
    /\ TuningDefault
    /\ BuildersIdle

\* laser.look_at(position + offset)
look_at ==
    /\ pc = "float"
    /\ \E offset \in AimOffsets :
          ray' = Ray(ray.origin,
                     look_at_direction(ray.origin, f32_vadd(ray.origin, offset)),
                     ray.color)
    /\ pc' = "aimed"
    /\ UNCHANGED <<segments, MAX_RAYS, ray_stack, lines_stack, passes, pushes, last>>
    /\ UNCHANGED <<network, tuning, builders>>

\* ray.collides_with((segment.0, segment.1)), in f32
Collide ==
    /\ pc = "aimed"
    /\ \E hit \in { f32_collides_with(ray, <<segments[1][1], segments[1][2]>>) } :
          last' = PassOf("collide", Some(Entry(ray, None, 0, 0)),
                         IF hit = None THEN None
                         ELSE Some([collision |-> Unwrap(hit), segment |-> segments[1]]),
                         <<>>)
    /\ pc' = "collided"
    /\ UNCHANGED <<segments, ray, MAX_RAYS, ray_stack, lines_stack, passes, pushes>>
    /\ UNCHANGED <<network, tuning, builders>>

FloatNext ==
    \/ look_at
    \/ Collide

FloatSpec == FloatInit /\ [][FloatNext]_vars

\* The exact product of two f32: s * (hi * 2^24 + lo) * 2^e, with hi = lo = 0
\* for zero and 2^22 <= hi < 2^24 otherwise
ExactProduct(a, b) ==
    LET ah == a.m \div 4096
        al == a.m % 4096
        bh == b.m \div 4096
        bl == b.m % 4096
        mid == ah * bl + al * bh
        low == (mid % 4096) * 4096 + al * bl
    IN IF a.m = 0 \/ b.m = 0 THEN [s |-> 1, hi |-> 0, lo |-> 0, e |-> 0]
       ELSE [s |-> a.s * b.s,
             hi |-> ah * bh + (mid \div 4096) + (low \div 2^24),
             lo |-> low % 2^24,
             e |-> a.e + b.e]

\* The same number with the exponent one lower
Doubled(p) == [s |-> p.s, hi |-> 2 * p.hi + p.lo \div 2^23, lo |-> (2 * p.lo) % 2^24, e |-> p.e - 1]

\* Two exact products are the same number (their exponents differ by at
\* most one then, both being of 47 or 48 bits)
SameProduct(p, q) ==
    \/ p = q
    \/ p.hi # 0 /\ Doubled(p) = q
    \/ q.hi # 0 /\ Doubled(q) = p

\* The cross product of two Vec2 is exactly zero
ExactlyParallel(a, b) == SameProduct(ExactProduct(a.x, b.y), ExactProduct(a.y, b.x))

\* ------------------------------------------------------------------------
\* C19.  collides_with returns None for every ray whose direction is
\* parallel to end - start (their cross product is zero), wherever the
\* origin of the ray is, on the line of the segment included.
\* ------------------------------------------------------------------------
C19_ParallelNeverHits ==
    (/\ pc = "collided"
     /\ ExactlyParallel(ray.direction, f32_vsub(segments[1][2], segments[1][1])))
    => last.found = None

\* ------------------------------------------------------------------------
\* One frame of the main loop (main.rs 122-124): the segments are taken from
\* the network and handed to solve_collisions
\* ------------------------------------------------------------------------
\* Four nodes, the ends of the walls at x = 10 and x = -10
FrameNodes ==
    [id \in 0..3 |->
        Node(CASE id = 0 -> Pt(10, 0)
               [] id = 1 -> Pt(10, 100)
               [] id = 2 -> Pt(-10, 0)
               [] id = 3 -> Pt(-10, 100),
             DefaultRadius)]

\* The edges 0-1 and 2-3 in each state: none, one or both of them
FrameEdges ==
    { [a |-> 2 * w, b |-> 2 * w + 1, state |-> state] : w \in {0, 1}, state \in EdgeState }

FrameConnections ==
    { <<>> } \cup { <<edge>> : edge \in FrameEdges }
    \cup { <<e[1], e[2]>> : e \in { f \in FrameEdges \X FrameEdges : f[1].a # f[2].a } }

\* Values of the reflectivity slider: 0, 1/2 and 1
Reflectivities == { f32_zero, f32_div(f32_from(1), f32_from(2)), f32_from(1) }

FrameInit ==
    /\ nodes = FrameNodes
    /\ connections \in FrameConnections
    /\ key = 4
    /\ returned = <<0, 1, 2, 3>>
    /\ resolved = <<>>
    /\ fault = "none"
    /\ dragged_node = None
    /\ selected_node = None
    /\ OBJECT_REFLECTIVITY \in Reflectivities
    /\ reflectance = None
    /\ BuildersIdle
    /\ segments = <<>>
    /\ ray \in LaserRays
    /\ MAX_RAYS \in 1..MaxRaysBound
    /\ ray_stack = <<>>
    /\ lines_stack = <<>>
    /\ pc = "frame"
    /\ passes = <<>>
    /\ pushes = 0
    /\ last = NoPass

\* segments = network.get_all_connections(), then the call of
\* laser.solve_collisions(&segments)
Frame ==
    /\ pc = "frame"
    /\ segments' = [i \in 1..Len(connections) |->
                       <<nodes[connections[i].a].position,
                         nodes[connections[i].b].position,
                         connections[i].state>>]
    /\ pc' = "call"
    /\ UNCHANGED <<ray, MAX_RAYS, ray_stack, lines_stack, passes, pushes, last>>
    /\ UNCHANGED <<network, tuning, builders>>

FrameNext ==
    \/ Frame
    \/ Enter
    \/ Pass
    \/ Return

FrameSpec == FrameInit /\ [][FrameNext]_vars

\* ------------------------------------------------------------------------
\* C22.  solve_collisions never writes the scene: from its call to its
\* return the segments handed to it, the nodes and connections of the
\* network, the ray of the laser, MAX_RAYS and OBJECT_REFLECTIVITY all stay
\* as they were.
\* ------------------------------------------------------------------------
C22_SolveLeavesScene ==
    [][(pc = "call" \/ pc = "loop")
       => (/\ UNCHANGED <<segments, nodes, connections>>
           /\ UNCHANGED <<ray, MAX_RAYS, OBJECT_REFLECTIVITY>>)]_vars

\* A solve on both walls that has returned three lines or more, with the
\* ray of the laser still the one it was called with
C22_Witness ==
    /\ pc = "done"
    /\ Len(segments) = 2
    /\ Len(connections) = 2
    /\ DOMAIN nodes = 0..3
    /\ Len(lines_stack) >= 3
    /\ ray = ExampleRay
    /\ passes[1].entry = Some(Entry(ray, None, 0, 0))

\* ------------------------------------------------------------------------
\* FresnelReflectAmount (lib.rs 827-849), in the arithmetic of the program
\* ------------------------------------------------------------------------
\* let n = n1 / n2; let sin_t2 = n * n * (1.0 - cosX * cosX);
SinT2(n1, n2, cosX) ==
    LET n == f32_div(n1, n2)
    IN f32_mul(f32_mul(n, n), f32_sub(f32_from(1), f32_mul(cosX, cosX)))

\* r0 + (1.0 - r0) * x * x * x * x * x with x = 1.0 - cosX, then the blend
\* with the reflectivity of the objects
Schlick(r0, cosX, reflectivity) ==
    LET x == f32_sub(f32_from(1), cosX)
        ret == f32_add(r0,
                   f32_mul(f32_mul(f32_mul(f32_mul(f32_mul(
                       f32_sub(f32_from(1), r0), x), x), x), x), x))
    IN f32_add(reflectivity, f32_mul(f32_sub(f32_from(1), reflectivity), ret))

FresnelReflectAmount(n1, n2, normal, incident) ==
    LET root == f32_div(f32_sub(n1, n2), f32_add(n1, n2))
        r0 == f32_mul(root, root)
        cosX == f32_dot(normal, incident)
    IN IF f32_lt(n2, n1)                                    \* n1 > n2
       THEN IF f32_lt(f32_from(1), SinT2(n1, n2, cosX))     \* sin_t2 > 1.0
            THEN f32_from(1)
            ELSE Schlick(r0, f32_sqrt(f32_sub(f32_from(1), SinT2(n1, n2, cosX))),
                         OBJECT_REFLECTIVITY)
       ELSE Schlick(r0, cosX, OBJECT_REFLECTIVITY)

\* Refractive indices: 1.0, 1.33 (the two of the call at line 367) and 1.5
Indices ==
    { f32_from(1), f32_div(f32_from(133), f32_from(100)), f32_div(f32_from(3), f32_from(2)) }

\* Unit vectors: along the axes, and (0.6, 0.8) to either side
UnitVectors ==
    { f32_vec(f32_from(1), f32_zero), f32_vec(f32_from(-1), f32_zero),
      f32_vec(f32_zero, f32_from(1)), f32_vec(f32_zero, f32_from(-1)) }
    \cup { f32_vec(f32_div(f32_from(3 * sx), f32_from(5)),
                   f32_div(f32_from(4 * sy), f32_from(5))) :
               sx \in {-1, 1}, sy \in {-1, 1} }

FresnelInit ==
    /\ NodeNetwork_new
    /\ TuningDefault
    /\ BuildersIdle
    /\ segments = <<>>
    /\ ray = ExampleRay
    /\ MAX_RAYS = 1
    /\ ray_stack = <<>>
    /\ lines_stack = <<>>
    /\ pc = "ui"
    /\ passes = <<>>
    /\ pushes = 0
    /\ last = NoPass

\* The slider of Laser::ui (line 193) is moved
Slide ==
    /\ pc = "ui"
    /\ \E value \in Reflectivities : OBJECT_REFLECTIVITY' = value
    /\ UNCHANGED <<reflectance, segments, solve, network, builders>>

\* FresnelReflectAmount is called and returns
Reflectance ==
    /\ pc = "ui"
    /\ pc' = "returned"
    /\ \E n1 \in Indices, n2 \in Indices, normal \in UnitVectors, incident \in UnitVectors :
          reflectance' = Some([n1 |-> n1, n2 |-> n2, normal |-> normal,
                               incident |-> incident,
                               ret |-> FresnelReflectAmount(n1, n2, normal, incident)])
    /\ UNCHANGED <<OBJECT_REFLECTIVITY, segments, network, builders>>
    /\ UNCHANGED <<ray, MAX_RAYS, ray_stack, lines_stack, passes, pushes, last>>

FresnelNext ==
    \/ Slide
    \/ Reflectance

FresnelSpec == FresnelInit /\ [][FresnelNext]_vars

\* ------------------------------------------------------------------------
\* C23.  FresnelReflectAmount returns a value from 0 to 1 for all indices,
\* every unit normal and unit incident direction, whichever way the normal
\* points, and every OBJECT_REFLECTIVITY from 0 to 1; and it returns 1.0
\* when n1 > n2 and the sine squared of the transmission angle, (n1/n2)^2 *
\* (1 - (normal . incident)^2), is above 1.
\* ------------------------------------------------------------------------
C23_FresnelInUnitRange ==
    reflectance # None
    => LET call == Unwrap(reflectance)
       IN /\ f32_le(f32_zero, call.ret)
          /\ f32_le(call.ret, f32_from(1))
          /\ (/\ f32_lt(call.n2, call.n1)
              /\ f32_lt(f32_from(1),
                        SinT2(call.n1, call.n2, f32_dot(call.normal, call.incident))))
             => call.ret = f32_from(1)

\* ------------------------------------------------------------------------
\* C24.  After any sequence of add_node, add_node_with_radius,
\* add_connection, clean and remove_node every edge of connections has both
\* its ends a and b among the nodes, so that get_all_connections and draw
\* never index a node that is missing (never panic).
\* ------------------------------------------------------------------------
C24_EdgesHaveBothEnds ==
    /\ \A i \in 1..Len(connections) :
          Known(connections[i].a) /\ Known(connections[i].b)
    /\ fault # "panic"

\* ------------------------------------------------------------------------
\* node_circle (main.rs 270-287): `sides` nodes on a circle, each connected
\* to the one before it, and a closing edge
\* ------------------------------------------------------------------------
MaxSides == 21         \* the slider `circle sides` goes from 1 to 1000

CloseBack == 19        \* node_network.add_connection(key, key - 19)

\* Mutant of WithConnection: only an edge in the same order counts as there
WithConnection_SameOrderOnly(conns, prev_conn, cur_conn) ==
    IF \E i \in 1..Len(conns) :
          conns[i].a = prev_conn /\ conns[i].b = cur_conn
    THEN conns
    ELSE Append(conns, Edge(prev_conn, cur_conn))

\* What add_connection(prev_conn, cur_conn) makes of the edges conns
WithConnection(conns, prev_conn, cur_conn) ==
    IF \E i \in 1..Len(conns) :
          \/ conns[i].a = prev_conn /\ conns[i].b = cur_conn
          \/ conns[i].a = cur_conn /\ conns[i].b = prev_conn
    THEN conns
    ELSE Append(conns, Edge(prev_conn, cur_conn))

\* if let Some(x) = connections.last_mut() { x.set_state(edge_state) }
WithLastState(conns, edge_state) ==
    IF conns = <<>> THEN conns
    ELSE [conns EXCEPT ![Len(conns)].state = edge_state]

\* a - b on usize in a build without overflow checks: below 0 it wraps to
\* usize::MAX + 1 - (b - a).  Ids in the upper half of usize are written as
\* their two's complement reading, so that this id is the integer a - b
\* below 0; no node has such an id.
wrapping_sub(a, b) == a - b

\* The edges after the passes i = 1 .. upto of the loop, the node of pass i
\* having the id first + i
RECURSIVE CircleEdges(_, _, _, _)
CircleEdges(conns, first, upto, edge_state) ==
    IF upto = 0 THEN conns
    ELSE WithLastState(
             WithConnection(CircleEdges(conns, first, upto - 1, edge_state),
                            first + upto, first + upto - 1),
             edge_state)

\* The node of pass i: on the circle at the angle i * 2 pi / sides
CircleNode(i, sides) == Node([turn |-> i, of |-> sides], DefaultRadius)

CircleInit ==
    /\ NodeNetwork_new
    /\ TuningDefault
    /\ BuildersIdle
    /\ segments = <<>>
    /\ ray = ExampleRay
    /\ MAX_RAYS = 1
    /\ ray_stack = <<>>
    /\ lines_stack = <<>>
    /\ pc = "frame"
    /\ passes = <<>>
    /\ pushes = 0
    /\ last = NoPass

\* The button `Draw Circle` (main.rs 202-205).  key - 19 below 0 panics in a
\* build with overflow checks and wraps in one without.
node_circle ==
    /\ fault # "panic"
    /\ circle = None
    /\ \E sides \in 1..MaxSides, edge_state \in EdgeState, checks \in BOOLEAN :
          LET last_key == key + sides - 1
              looped == CircleEdges(connections, key, sides - 1, edge_state)
              wraps == last_key < CloseBack
          IN /\ nodes' = [id \in DOMAIN nodes \cup key..last_key |->
                             IF id < key THEN nodes[id]
                             ELSE CircleNode(id - key, sides)]
             /\ key' = key + sides
             /\ returned' = returned \o [i \in 1..sides |-> key + i - 1]
             /\ connections' =
                    IF wraps /\ checks THEN looped
                    ELSE WithLastState(
                             WithConnection(looped, last_key,
                                            wrapping_sub(last_key, CloseBack)),
                             edge_state)
             /\ fault' = IF wraps /\ checks THEN "panic" ELSE "none"
             /\ circle' = Some([sides |-> sides, first |-> key,
                                edges_before |-> Len(connections)])
    /\ resolved' = <<>>
    /\ UNCHANGED <<segments, solve, tuning, labyrinth, editor>>

CircleNext ==
    \/ add_node
    \/ node_circle

CircleSpec == CircleInit /\ [][CircleNext]_vars

\* ------------------------------------------------------------------------
\* C25.  node_circle with sides >= 1 adds exactly `sides` new nodes and
\* connects them into one closed polygon: every new node to the new node
\* before it, and the last new node back to the first new node of the call;
\* no edge it adds has an end outside the nodes of the call, and no id below
\* zero is computed.
\* ------------------------------------------------------------------------
\* The edges the call added
NewEdges == SubSeq(connections, Unwrap(circle).edges_before + 1, Len(connections))

\* Two ids are the two ends of one of them
Joined(a, b) ==
    \E i \in 1..Len(NewEdges) :
        \/ NewEdges[i].a = a /\ NewEdges[i].b = b
        \/ NewEdges[i].a = b /\ NewEdges[i].b = a

C25_CircleIsClosedPolygon ==
    circle # None
    => LET first == Unwrap(circle).first
           sides == Unwrap(circle).sides
           added == first..(first + sides - 1)
       IN /\ fault # "panic"
          /\ DOMAIN nodes = 0..(first - 1) \cup added
          /\ \A id \in added : id > first => Joined(id, id - 1)
          /\ Joined(first + sides - 1, first)
          /\ \A i \in 1..Len(NewEdges) :
                NewEdges[i].a \in added /\ NewEdges[i].b \in added

\* ------------------------------------------------------------------------
\* The editor: NodeNetwork::update (lib.rs 531-577) with the mouse, that is
\* handle_mouse (604-665), handle_selection (595-603), the release of the
\* dragged node, the loop over the nodes and the loop over the edges; and
\* `Delete all nodes`, which is clean.  A network in the middle of update is
\* the record [nodes, connections, key, dragged_node, selected_node, fault].
\* ------------------------------------------------------------------------
EdgeThickness == 5     \* Edge::new: thickness 5.0

\* Where the pointer is: on either node position, between the two, or away
\* from both
MousePositions == NodePositions \cup { Pt(10, 50), Pt(50, 50) }

\* Node::contains
contains(node, position) ==
    length_squared(Sub(position, node.position)) <= node.radius * node.radius

\* point_line_collision: point_to_line_distance <= thickness / 2, squared
point_line_collision(point, line_start, line_end, thickness) ==
    LET seg == Sub(line_end, line_start)
        along == DotN(Sub(point, line_start), seg)
        nearest2 ==      \* the squared distance times length_squared(seg), or times 1
            IF length_squared(seg) = 0 \/ along < 0
            THEN [num |-> length_squared(Sub(point, line_start)), den |-> 1]
            ELSE IF along > length_squared(seg)
            THEN [num |-> length_squared(Sub(point, line_end)), den |-> 1]
            ELSE [num |-> PerpDotN(Sub(point, line_start), seg)
                          * PerpDotN(Sub(point, line_start), seg),
                  den |-> length_squared(seg)]
    IN 4 * nearest2.num <= thickness * thickness * nearest2.den

\* The nodes that contain the pointer
Hits(ns, mouse) == { i \in DOMAIN ns : contains(ns[i], mouse) }

\* The first of the ids S that an iteration over the HashMap meets: any of
\* them, None if there is none
FirstOf(S) == IF S = {} THEN { None } ELSE { Some(i) : i \in S }

\* The network as a record
Network ==
    [nodes |-> nodes, connections |-> connections, key |-> key,
     dragged_node |-> dragged_node, selected_node |-> selected_node,
     fault |-> fault]

\* remove_node(index) on the record
WithoutNode(net, index) ==
    [net EXCEPT
        !.connections = IF index \in DOMAIN net.nodes
                        THEN SelectSeq(@, LAMBDA edge : edge.a # index /\ edge.b # index)
                        ELSE @,
        !.nodes = [i \in DOMAIN net.nodes \ {index} |-> net.nodes[i]]]

\* The first edge the loop of lines 655-663 stops at: an end of it is no
\* node (the index panics) or the pointer is on it; 0 if there is none
FirstStop(net, mouse) ==
    LET stops(i) ==
            \/ net.connections[i].a \notin DOMAIN net.nodes
            \/ net.connections[i].b \notin DOMAIN net.nodes
            \/ point_line_collision(mouse,
                                    net.nodes[net.connections[i].a].position,
                                    net.nodes[net.connections[i].b].position,
                                    EdgeThickness)
    IN IF \E i \in 1..Len(net.connections) : stops(i)
       THEN CHOOSE i \in 1..Len(net.connections) :
                stops(i) /\ \A j \in 1..(i - 1) : ~stops(j)
       ELSE 0

\* Lines 605-641: the right button.  selected_index is the node found under
\* the pointer.
right_click(net, mouse, pressed, selected_index) ==
    IF ~pressed \/ net.dragged_node # None \/ net.fault = "panic" THEN net
    ELSE IF selected_index # None
    THEN IF net.selected_node = selected_index
         THEN [net EXCEPT !.selected_node = None]
         ELSE IF net.selected_node # None
         THEN [net EXCEPT
                  !.connections = WithConnection(@, Unwrap(net.selected_node),
                                                 Unwrap(selected_index)),
                  !.selected_node = None]
         ELSE [net EXCEPT !.selected_node = selected_index]
    ELSE IF net.selected_node # None /\ Unwrap(net.selected_node) \notin DOMAIN net.nodes
    THEN [net EXCEPT !.fault = "panic"]      \* self.nodes[&self.selected_node.unwrap()]
    ELSE [net EXCEPT
             !.nodes = [i \in DOMAIN net.nodes \cup {net.key} |->
                           IF i = net.key THEN Node(mouse, DefaultRadius)
                           ELSE net.nodes[i]],
             !.key = @ + 1,
             !.connections = IF net.selected_node # None
                             THEN WithConnection(@, Unwrap(net.selected_node), net.key)
                             ELSE @,
             !.selected_node = None]

\* Mutant of middle_click: a node is removed also while one is selected
middle_click_WhileSelected(net, mouse, pressed, index) ==
    IF ~pressed \/ net.dragged_node # None \/ net.fault = "panic"
    THEN net
    ELSE IF index # None THEN WithoutNode(net, Unwrap(index))
    ELSE LET stop == FirstStop(net, mouse)
         IN IF stop = 0 THEN net
            ELSE [net EXCEPT !.connections =
                     [i \in 1..(Len(@) - 1) |-> IF i < stop THEN @[i] ELSE @[i + 1]]]

\* Lines 644-664: the middle button.  index is the node found under the
\* pointer.
middle_click(net, mouse, pressed, index) ==
    IF \/ ~pressed
       \/ net.dragged_node # None
       \/ net.selected_node # None
       \/ net.fault = "panic"
    THEN net
    ELSE IF index # None THEN WithoutNode(net, Unwrap(index))
    ELSE LET stop == FirstStop(net, mouse)
         IN IF stop = 0 THEN net
            ELSE IF \/ net.connections[stop].a \notin DOMAIN net.nodes
                    \/ net.connections[stop].b \notin DOMAIN net.nodes
            THEN [net EXCEPT !.fault = "panic"]
            ELSE [net EXCEPT !.connections =
                     [i \in 1..(Len(@) - 1) |-> IF i < stop THEN @[i] ELSE @[i + 1]]]

\* Lines 595-603: the selected node is indexed
handle_selection(net) ==
    IF /\ net.fault # "panic"
       /\ net.selected_node # None
       /\ Unwrap(net.selected_node) \notin DOMAIN net.nodes
    THEN [net EXCEPT !.fault = "panic"]
    ELSE net

\* Lines 535-542: the left button is released
released(net, left_released) ==
    IF net.fault = "panic" \/ net.dragged_node = None \/ ~left_released THEN net
    ELSE [net EXCEPT
             !.nodes = [i \in DOMAIN @ |->
                           IF Some(i) = net.dragged_node
                           THEN [@[i] EXCEPT !.is_dragged = FALSE]
                           ELSE @[i]],
             !.dragged_node = None]

\* Node::handle_drag on every node: a dragged node follows the pointer
Dragged(ns, mouse) ==
    [i \in DOMAIN ns |-> IF ns[i].is_dragged THEN [ns[i] EXCEPT !.position = mouse]
                         ELSE ns[i]]

\* The nodes the left button can pick up (lines 548-555)
Draggable(net, mouse, left_pressed) ==
    IF left_pressed /\ net.dragged_node = None /\ net.fault # "panic"
    THEN { i \in Hits(Dragged(net.nodes, mouse), mouse) : ~net.nodes[i].is_dragged }
    ELSE {}

\* Lines 544-557: the loop over the nodes; picked is the node picked up
hover(net, mouse, picked) ==
    IF net.fault = "panic" THEN net
    ELSE [net EXCEPT
             !.nodes = [i \in DOMAIN @ |->
                           IF Some(i) = picked
                           THEN [Dragged(@, mouse)[i] EXCEPT !.is_dragged = TRUE]
                           ELSE Dragged(@, mouse)[i]],
             !.dragged_node = IF picked # None THEN picked ELSE @]

\* Lines 559-576: the loop over the edges; an edge under the pointer changes
\* state on a press of the left button unless a node is under the pointer
\* too.  `self.nodes[&edge.a]` panics on a missing node, a missing b is
\* logged and taken for (0, 0).
edges_update(net, mouse, left_pressed) ==
    LET known(id) == id \in DOMAIN net.nodes
        n == Len(net.connections)
        stop == IF \E i \in 1..n : ~known(net.connections[i].a)
                THEN CHOOSE i \in 1..n :
                         /\ ~known(net.connections[i].a)
                         /\ \A j \in 1..(i - 1) : known(net.connections[j].a)
                ELSE n + 1
        is_hovered(edge) ==
            point_line_collision(mouse, net.nodes[edge.a].position,
                                 IF known(edge.b) THEN net.nodes[edge.b].position
                                 ELSE Pt(0, 0),
                                 EdgeThickness)
    IN IF net.fault = "panic" THEN net
       ELSE [net EXCEPT
                !.connections =
                    [i \in 1..n |->
                        IF /\ i < stop
                           /\ left_pressed
                           /\ Hits(net.nodes, mouse) = {}
                           /\ is_hovered(@[i])
                        THEN [@[i] EXCEPT !.state = cycle_state(@)]
                        ELSE @[i]],
                !.fault = IF stop <= n THEN "panic"
                          ELSE IF \E i \in 1..n : ~known(net.connections[i].b)
                          THEN "logged"
                          ELSE "none"]

EditorInit ==
    /\ NodeNetwork_new
    /\ TuningDefault
    /\ BuildersIdle
    /\ segments = <<>>
    /\ ray = ExampleRay
    /\ MAX_RAYS = 1
    /\ ray_stack = <<>>
    /\ lines_stack = <<>>
    /\ pc = "frame"
    /\ passes = <<>>
    /\ pushes = 0
    /\ last = NoPass

\* One call of NodeNetwork::update: the pointer is at `mouse`, and each
\* button was pressed or released since the last frame or was not
update_editor ==
    /\ fault # "panic"
    /\ \E mouse \in MousePositions,
          left_pressed \in BOOLEAN, left_released \in BOOLEAN,
          right_pressed \in BOOLEAN, middle_pressed \in BOOLEAN :
          \E selected_index \in FirstOf(Hits(nodes, mouse)) :
             LET clicked == right_click(Network, mouse, right_pressed, selected_index)
             IN \E index \in FirstOf(Hits(clicked.nodes, mouse)) :
                   LET let_go == released(handle_selection(
                                     middle_click(clicked, mouse, middle_pressed, index)),
                                     left_released)
                   IN \E picked \in FirstOf(Draggable(let_go, mouse, left_pressed)) :
                         LET net == edges_update(hover(let_go, mouse, picked),
                                                 mouse, left_pressed)
                         IN /\ Len(returned) + net.key - key <= MaxAdds
                            /\ Len(net.connections) <= MaxEdges
                            /\ nodes' = net.nodes
                            /\ connections' = net.connections
                            /\ key' = net.key
                            /\ dragged_node' = net.dragged_node
                            /\ selected_node' = net.selected_node
                            /\ fault' = net.fault
                            /\ returned' = IF net.key > key THEN Append(returned, key)
                                           ELSE returned
    /\ resolved' = <<>>
    /\ UNCHANGED <<segments, solve, tuning, builders>>

EditorNext ==
    \/ update_editor
    \/ clean

EditorSpec == EditorInit /\ [][EditorNext]_vars

\* ------------------------------------------------------------------------
\* C26.  In every state of the editor, whatever the presses and releases of
\* the three buttons and the uses of `Delete all nodes`, selected_node and
\* dragged_node are each None or the id of a node that is among the nodes;
\* a node is never removed while it is selected or dragged: handle_mouse
\* removes a node only when none is selected or dragged, and clean drops
\* both together with the nodes.
\* ------------------------------------------------------------------------
Present(opt) == opt = None \/ Unwrap(opt) \in DOMAIN nodes

\* Whatever the frame brings, at the point where handle_mouse removes a
\* node (line 651) no node is selected or dragged
RemovesOnlyWhenIdle ==
    \A mouse \in MousePositions, right_pressed \in BOOLEAN :
        \A selected_index \in FirstOf(Hits(nodes, mouse)) :
            LET clicked == right_click(Network, mouse, right_pressed, selected_index)
            IN \A index \in FirstOf(Hits(clicked.nodes, mouse)) :
                  DOMAIN middle_click(clicked, mouse, TRUE, index).nodes
                      # DOMAIN clicked.nodes
                  => clicked.selected_node = None /\ clicked.dragged_node = None

C26_SelectionIsANode ==
    /\ Present(selected_node)
    /\ Present(dragged_node)
    /\ fault # "panic"
    /\ RemovesOnlyWhenIdle

\* Node 0 has been removed with the middle button, node 1 was then picked
\* with the right button and is being dragged
C26_Witness ==
    /\ key = 2
    /\ DOMAIN nodes = {1}
    /\ selected_node = Some(1)
    /\ dragged_node = Some(1)
    /\ nodes[1].is_dragged

\* ------------------------------------------------------------------------
\* C27.  Energy never grows along a branch: every ray that solve_collisions
\* queues has an alpha that is at most the alpha of the ray it comes from,
\* since the split weight fresnel = (direction . normal)^6 * 0.97 lies
\* between 0 and 0.97 for a unit direction and a unit normal, whichever way
\* the normal points.
\* ------------------------------------------------------------------------
\* a * ColorBase^d
RECURSIVE Scaled(_, _)
Scaled(a, d) == IF d = 0 THEN a ELSE Scaled(BigMul(a, ColorBase), d - 1)

\* The alpha of child is at most the alpha of parent; child is as fine as
\* parent or finer
AlphaLeq(child, parent) ==
    BigLeq(child.a, Scaled(parent.a, child.e - parent.e))

\* The alpha of child is below the alpha of parent
AlphaLess(child, parent) ==
    BigLess(child.a, Scaled(parent.a, child.e - parent.e))

C27_EnergyNeverGrows ==
    last.kind = "hit"
    => LET parent == Unwrap(last.entry).ray
           hit == Unwrap(last.found)
       IN /\ \A i \in 1..Len(last.children) :
                AlphaLeq(last.children[i].ray.color, parent.color)
          /\ hit.segment[3] = "Transparent"
             => Fresnel(parent.direction, hit.collision.normal)
                    \in 0..(97 * (ColorBase \div 100))

\* A ray that is itself a child splits on a Transparent segment whose normal
\* points against it: both rays queued are dimmer than it
C27_Witness ==
    /\ last.kind = "hit"
    /\ Unwrap(last.entry).gen >= 1
    /\ Unwrap(last.found).segment[3] = "Transparent"
    /\ DotN(Unwrap(last.entry).ray.direction, Unwrap(last.found).collision.normal) < 0
    /\ Len(last.children) = 2
    /\ \A i \in 1..2 :
          AlphaLess(last.children[i].ray.color, Unwrap(last.entry).ray.color)

\* ------------------------------------------------------------------------
\* Calls of add_connection on their own, with ids that need not be nodes
\* ------------------------------------------------------------------------
ConnIds == 0..MaxAdds

ConnInit ==
    /\ NodeNetwork_new
    /\ TuningDefault
    /\ BuildersIdle
    /\ segments = <<>>
    /\ ray = ExampleRay
    /\ MAX_RAYS = 1
    /\ ray_stack = <<>>
    /\ lines_stack = <<>>
    /\ pc = "frame"
    /\ passes = <<>>
    /\ pushes = 0
    /\ last = NoPass

\* add_connection(prev_conn, cur_conn); the call and the edges before it
\* are kept in last
connect ==
    /\ \E prev_conn \in ConnIds, cur_conn \in ConnIds :
          /\ connections' = WithConnection(connections, prev_conn, cur_conn)
          /\ last' = [kind |-> "add_connection", prev_conn |-> prev_conn,
                      cur_conn |-> cur_conn, before |-> connections]
    /\ Len(connections') <= MaxEdges + 2
    /\ UNCHANGED <<nodes, key, returned, resolved, fault, editor>>
    /\ UNCHANGED <<segments, ray, MAX_RAYS, ray_stack, lines_stack, pc, passes, pushes>>
    /\ UNCHANGED <<tuning, builders>>

ConnNext == connect

ConnSpec == ConnInit /\ [][ConnNext]_vars

\* ------------------------------------------------------------------------
\* C28.  After any calls of add_connection, connections holds at most one
\* edge for a pair of ids, whatever their order: add_connection(a, b) leaves
\* connections as it is when an edge (a, b) or (b, a) is there, and appends
\* exactly one Reflective edge (a, b) otherwise.
\* ------------------------------------------------------------------------
SamePair(edge, a, b) ==
    \/ edge.a = a /\ edge.b = b
    \/ edge.a = b /\ edge.b = a

C28_OneEdgePerPair ==
    /\ \A i, j \in 1..Len(connections) :
          i # j => ~SamePair(connections[i], connections[j].a, connections[j].b)
    /\ last.kind = "add_connection"
       => IF \E i \in 1..Len(last.before) :
                SamePair(last.before[i], last.prev_conn, last.cur_conn)
          THEN connections = last.before
          ELSE connections =
                   last.before \o << [a |-> last.prev_conn, b |-> last.cur_conn,
                                      state |-> "Reflective"] >>

\* (1, 0) is asked for while (0, 1) is there, next to two more edges:
\* nothing is added
C28_Witness ==
    /\ last.kind = "add_connection"
    /\ last.prev_conn = 1
    /\ last.cur_conn = 0
    /\ connections = <<Edge(0, 1), Edge(1, 2), Edge(2, 2)>>
    /\ last.before = connections

\* ------------------------------------------------------------------------
\* Labyrinth (src/src/labyrinth.rs): Labyrinth::new and the loop of
\* generate_depth_first, one pass of `while let` a step
\* ------------------------------------------------------------------------
MaxGrid == 3           \* the grid is at most MaxGrid cells wide and high

\* Cell::new: the set of the closed sides stands for the bits of `sides`
Cell_new == {"Top", "Bottom", "Left", "Right"}

\* Cell::open
open(cell, side) == cell \ {side}

\* Cell::is_open.  The mask of Right also holds bit 4, which no cell ever
\* has set.
is_open(cell, side) == side \notin cell

DIRECTIONS == << <<0, 1>>, <<0, -1>>, <<1, 0>>, <<-1, 0>> >>

\* The outcomes of directions.shuffle(): every order of the four
Shuffles ==
    { << DIRECTIONS[p[1]], DIRECTIONS[p[2]], DIRECTIONS[p[3]], DIRECTIONS[p[4]] >> :
        p \in { q \in [1..4 -> 1..4] : \A i, j \in 1..4 : q[i] = q[j] => i = j } }

\* Labyrinth::new(cell_size, size) and the locals of generate_depth_first
\* before the loop.  cells has size.0 rows of size.1 cells; visited has
\* size.1 rows of size.0 flags and is kept as the set of the <<x, y>> set.
Labyrinth_new(size) ==
    [size |-> size,
     cells |-> [i \in 0..(size[1] - 1) |-> [j \in 0..(size[2] - 1) |-> Cell_new]],
     visited |-> {},
     stack |-> << <<0, 0>> >>,
     last_dir |-> <<0, -1>>,
     passes |-> 0,
     pc |-> "loop"]

\* self.cells[y][x] is an index out of bounds
OutOfCells(l, x, y) == ~(y \in DOMAIN l.cells /\ x \in DOMAIN l.cells[y])

\* The sides opened for a step (d_x, d_y): on the cell left, on the cell
\* entered
SidesOf(d) ==
    CASE d = <<0, -1>> -> <<"Top", "Bottom">>
      [] d = <<0, 1>> -> <<"Bottom", "Top">>
      [] d = <<1, 0>> -> <<"Right", "Left">>
      [] d = <<-1, 0>> -> <<"Left", "Right">>

\* The tests of the for loop on a direction: not the last one taken, inside
\* the grid, not visited
Passes(l, x, y, d) ==
    /\ l.last_dir # d
    /\ x + d[1] >= 0
    /\ y + d[2] >= 0
    /\ x + d[1] < l.size[1]
    /\ y + d[2] < l.size[2]
    /\ <<x + d[1], y + d[2]>> \notin l.visited

Opened(cells, x, y, side) ==
    [cells EXCEPT ![y] = [@ EXCEPT ![x] = open(@, side)]]

\* One pass of the while loop for the cell (x, y) popped and the order
\* `directions` the shuffle gave
Visit(l, directions) ==
    LET x == Head(l.stack)[1]
        y == Head(l.stack)[2]
        rest == Tail(l.stack)
        found == { i \in 1..4 : Passes(l, x, y, directions[i]) }
        counted == [l EXCEPT !.passes = @ + 1]
    IN IF found = {}
       THEN [counted EXCEPT !.stack = rest,
                            !.pc = IF rest = <<>> THEN "done" ELSE "loop"]
       ELSE LET d == directions[CHOOSE i \in found : \A j \in found : i <= j]
                next_x == x + d[1]
                next_y == y + d[2]
                marked == [counted EXCEPT
                              !.visited = @ \cup { <<next_x, next_y>> },
                              !.last_dir = d,
                              !.stack = << <<next_x, next_y>>, <<x, y>> >> \o rest]
            IN IF OutOfCells(l, x, y)
               THEN [marked EXCEPT !.pc = "panic"]
               ELSE LET first == [marked EXCEPT
                                     !.cells = Opened(@, x, y, SidesOf(d)[1])]
                    IN IF OutOfCells(l, next_x, next_y)
                       THEN [first EXCEPT !.pc = "panic"]
                       ELSE [first EXCEPT
                                !.cells = Opened(@, next_x, next_y, SidesOf(d)[2])]

LabyrinthInit ==
    /\ NodeNetwork_new
    /\ TuningDefault
    /\ BuildersIdle
    /\ segments = <<>>
    /\ ray = ExampleRay
    /\ MAX_RAYS = 1
    /\ ray_stack = <<>>
    /\ lines_stack = <<>>
    /\ pc = "frame"
    /\ passes = <<>>
    /\ pushes = 0
    /\ last = NoPass

\* Labyrinth::new(cell_size, (w, h)) and the entry of generate_depth_first
generate_depth_first ==
    /\ labyrinth = None
    /\ \E w \in 1..MaxGrid, h \in 1..MaxGrid :
          labyrinth' = Some(Labyrinth_new(<<w, h>>))
    /\ UNCHANGED <<segments, solve, network, tuning, circle>>

\* while let Some((x, y)) = stack.pop_front() { ... }
depth_first_pass ==
    /\ labyrinth # None
    /\ Unwrap(labyrinth).pc = "loop"
    /\ \E directions \in Shuffles :
          labyrinth' = Some(Visit(Unwrap(labyrinth), directions))
    /\ UNCHANGED <<segments, solve, network, tuning, circle>>

LabyrinthNext ==
    \/ generate_depth_first
    \/ depth_first_pass

LabyrinthSpec == LabyrinthInit /\ [][LabyrinthNext]_vars

\* The cells of the grid as <<x, y>>, the cell next to one on a side, and
\* the side that faces back
GridCells(l) == (0..(l.size[1] - 1)) \X (0..(l.size[2] - 1))

Sides == {"Top", "Bottom", "Left", "Right"}

Beside(c, side) ==
    CASE side = "Top" -> <<c[1], c[2] - 1>>
      [] side = "Bottom" -> <<c[1], c[2] + 1>>
      [] side = "Left" -> <<c[1] - 1, c[2]>>
      [] side = "Right" -> <<c[1] + 1, c[2]>>

Facing(side) ==
    CASE side = "Top" -> "Bottom"
      [] side = "Bottom" -> "Top"
      [] side = "Left" -> "Right"
      [] side = "Right" -> "Left"

\* The side of the cell c is open (cells[y][x], as the code indexes it; on
\* a grid that is not square some cells of the grid have no cells[y][x])
OpenAt(l, c, side) ==
    /\ ~OutOfCells(l, c[1], c[2])
    /\ is_open(l.cells[c[2]][c[1]], side)

\* A wall is open on a cell exactly when it is open on the cell behind it
OpenedOnBothSides(l) ==
    \A c \in GridCells(l), side \in Sides :
        Beside(c, side) \in GridCells(l)
        => (OpenAt(l, c, side) <=> OpenAt(l, Beside(c, side), Facing(side)))

\* The passages: the pairs of cells with an open wall between them
Passages(l) ==
    UNION { { {c, Beside(c, side)} :
                side \in { s \in Sides : /\ Beside(c, s) \in GridCells(l)
                                         /\ OpenAt(l, c, s) } } :
            c \in GridCells(l) }

\* The cells that can be reached from the cells of `seen` by passages
RECURSIVE ReachedFrom(_, _)
ReachedFrom(l, seen) ==
    LET more == { c \in GridCells(l) : \E d \in seen : {c, d} \in Passages(l) }
    IN IF more \subseteq seen THEN seen ELSE ReachedFrom(l, seen \cup more)

AllReached(l) == ReachedFrom(l, { <<0, 0>> }) = GridCells(l)

\* A connected graph has no cycle exactly when it has one edge less than
\* it has vertices
NoCycle(l) == Cardinality(Passages(l)) < Cardinality(GridCells(l))

\* The loop ends: a pass either marks a cell that was not marked, or takes
\* one cell off the stack
Terminates(l) == l.passes <= 2 * l.size[1] * l.size[2] + 1

\* ------------------------------------------------------------------------
\* C29.  generate_depth_first on a grid of w x h closed cells ends, and for
\* every outcome of the shuffles what it leaves is a perfect labyrinth:
\* every cell can be reached from (0, 0) by open walls, the passages have no
\* cycle, and a wall is open on a cell exactly when the wall facing it on
\* the cell next to it is open.
\* ------------------------------------------------------------------------
C29_PerfectLabyrinth ==
    labyrinth # None
    => LET l == Unwrap(labyrinth)
       IN /\ l.pc # "panic"
          /\ Terminates(l)
          /\ l.pc = "done"
             => /\ OpenedOnBothSides(l)
                /\ AllReached(l)
                /\ NoCycle(l)

====
